---- MODULE Spec2Model ----
(***************************************************************************)
(* A model of the task queue of BloodTest-Analyzer (src/queue_worker.py): *)
(* the in-process InMemoryQueue, the RedisQueue and the QueueManager that *)
(* selects one of them at construction.                                   *)
(*                                                                         *)
(* Spec         one InMemoryQueue driven by callers; every method body is  *)
(*              one step, as the method holds self._lock from entry to    *)
(*              return.                                                    *)
(* SpecMgr      one QueueManager driven by one caller, on the backend it   *)
(*              selected at construction; a Redis command may raise.      *)
(* SpecThreads  threads on one InMemoryQueue, with self._lock.             *)
(* SpecEquiv    one caller of two QueueManagers, one on each backend.      *)
(* SpecWorkers  workers on one Redis server, one Redis command a step.     *)
(* SpecBlocking workers of one QueueManager, with the wait of brpop.        *)
(* SpecLive     Spec with workers that keep dequeuing and reporting.       *)
(* SpecHttp     the /analyze requests of src/main.py and their jobs.       *)
(***************************************************************************)
EXTENDS Integers, Sequences, FiniteSets, TLC

(***************************************************************************)
(* Bounds of the model.                                                    *)
(***************************************************************************)
\* the clock read by datetime.utcnow() runs from 1 to MaxTime and stays there
MaxTime == 2
\* the callers construct QueueTask objects with max_retries in 0..MaxRetries
MaxRetries == 2
\* the QueueTask objects constructed in one run (an object's identity)
Oids == {1, 2}

(***************************************************************************)
(* Values.                                                                 *)
(***************************************************************************)
\* Optional[datetime] = None (queue_worker.py:27-28): no datetime is 0
None == 0
Times == 1 .. MaxTime
\* Optional[str] = None (queue_worker.py:29, 68)
NoneStr == "None"
Ids == {"t1", "t2"}
TaskTypes == {"analysis"}
\* the dict passed as data
Payloads == {[file |-> "a.pdf"]}
ErrorMessages == {"parse error"}
\* the result passed to complete_task; None is its default
Results == {NoneStr, "ok"}

\* the redis_url passed to QueueManager(); None is its default
RedisUrls == {NoneStr, "redis://localhost:6379"}
\* bool(result) of "if result:"
Truthy(result) == result \notin {NoneStr, ""}

\* class TaskStatus(Enum)
QUEUED == "queued"
PROCESSING == "processing"
COMPLETED == "completed"
FAILED == "failed"

\* mutant: a new task counts one retry already
QueueTask_already_retried(oid, id, task_type, data, created_at, max_retries) ==
    [oid |-> oid, id |-> id, task_type |-> task_type, data |-> data,
     status |-> QUEUED, created_at |-> created_at,
     started_at |-> None, completed_at |-> None, error_message |-> NoneStr,
     retry_count |-> 1, max_retries |-> max_retries]

\* @dataclass QueueTask, as a caller constructs it before enqueue; oid is
\* the identity of the Python object (two objects may carry the same id)
QueueTask(oid, id, task_type, data, created_at, max_retries) ==
    [oid |-> oid, id |-> id, task_type |-> task_type, data |-> data,
     status |-> QUEUED, created_at |-> created_at,
     started_at |-> None, completed_at |-> None, error_message |-> NoneStr,
     retry_count |-> 0, max_retries |-> max_retries]

(***************************************************************************)
(* Python dict, keyed by task id, in insertion order: a sequence of the    *)
(* values (each value carries its key in .id).                             *)
(***************************************************************************)
Keys(d) == {d[i].id : i \in DOMAIN d}

DictGet(d, k) == d[CHOOSE i \in DOMAIN d : d[i].id = k]

\* d[k] = v: an existing key keeps its position, a new key goes last
DictSet(d, k, v) ==
    IF k \in Keys(d)
    THEN [i \in DOMAIN d |-> IF d[i].id = k THEN v ELSE d[i]]
    ELSE Append(d, v)

\* d.pop(k) for a key that is present: the dict that is left
DictPop(d, k) == SelectSeq(d, LAMBDA r : r.id # k)

\* d[key] = value on a dict with string keys, as a record
SetItem(d, key, value) ==
    [k \in DOMAIN d \cup {key} |-> IF k = key THEN value ELSE d[k]]

(***************************************************************************)
(* State.                                                                  *)
(***************************************************************************)
VARIABLES
    tasks,              \* InMemoryQueue.tasks
    processing_tasks,   \* InMemoryQueue.processing_tasks
    completed_tasks,    \* InMemoryQueue.completed_tasks
    failed_tasks,       \* InMemoryQueue.failed_tasks
    next_oid,           \* the number of QueueTask objects constructed, plus 1
    clock,              \* the value datetime.utcnow() returned last
    enqueued_ids,       \* history: the ids enqueue has been called with
    ret,                \* the last call: its name, arguments and return value
    redis_queue,        \* QueueManager.redis_queue: <<>> for None, or
                        \* <<q>> with q.redis_available
    use_redis,          \* QueueManager.use_redis
    redis_list,         \* the Redis list "blood_analysis_queue", left to right
    redis_hash,         \* the Redis hashes "task:<id>", by id; <<>> is no key
    lock,               \* InMemoryQueue._lock: None, or the thread that holds it
    pc,                 \* by thread: where it is in its call, "idle" outside
    frame,              \* by thread: the arguments and locals of its call
    handed,             \* history: the objects dequeue returned that no
                        \* fail_task has re-queued since
    pending,            \* <<>>, or <<c>>: the call c a caller of two managers
                        \* has made on the first and not yet on the second
    analyses,           \* the rows of the table analyses of the database
    files               \* the files that exist in the directory data

containers == <<tasks, processing_tasks, completed_tasks, failed_tasks>>
managerVars == <<redis_queue, use_redis>>
redisVars == <<redis_list, redis_hash>>
threadVars == <<lock, pc, frame, handed>>
httpVars == <<analyses, files>>
vars == <<tasks, processing_tasks, completed_tasks, failed_tasks, next_oid,
          clock, enqueued_ids, ret, redis_queue, use_redis, redis_list,
          redis_hash, lock, pc, frame, handed, pending, analyses, files>>

\* a call and what it returned: ok is the boolean returned (for a call that
\* returns an object or None: whether it is an object), val is <<>> for None
\* and <<v>> for the object v
Ret(op, id, arg, ok, val) ==
    [op |-> op, id |-> id, arg |-> arg, ok |-> ok, val |-> val]

(***************************************************************************)
(* InMemoryQueue                                                           *)
(***************************************************************************)
InMemoryQueue_init ==
    /\ tasks = <<>>
    /\ processing_tasks = <<>>
    /\ completed_tasks = <<>>
    /\ failed_tasks = <<>>

\* mutant: the order of insertion instead of created_at
OldestTaskId_insertion_order(d) == d[1].id

\* mutant: the key inserted last
OldestTaskId_last_inserted(d) == d[Len(d)].id

\* min(self.tasks.keys(), key=lambda x: self.tasks[x].created_at): the first
\* key, in the dict's order, whose created_at is the least
OldestTaskId(d) ==
    LET i == CHOOSE i \in DOMAIN d :
                /\ \A j \in DOMAIN d : d[i].created_at <= d[j].created_at
                /\ \A j \in 1 .. (i - 1) : d[j].created_at > d[i].created_at
    IN  d[i].id

\* mutant: one retry fewer
UnderMaxRetries_one_fewer(task) == task.retry_count + 1 < task.max_retries

\* mutant: one retry more
UnderMaxRetries_one_more(task) == task.retry_count <= task.max_retries

\* if task.retry_count < task.max_retries
UnderMaxRetries(task) == task.retry_count < task.max_retries

InMemoryQueue_enqueue(task) ==
    /\ tasks' = DictSet(tasks, task.id, task)
    /\ UNCHANGED <<processing_tasks, completed_tasks, failed_tasks>>
    /\ ret' = Ret("enqueue", task.id, NoneStr, TRUE, <<>>)

\* mutant: dequeue stamps created_at as well
InMemoryQueue_dequeue_restamps(now) ==
    IF tasks = <<>>
    THEN /\ ret' = Ret("dequeue", NoneStr, NoneStr, FALSE, <<>>)
         /\ UNCHANGED containers
    ELSE LET task_id == OldestTaskId(tasks)
             popped == DictGet(tasks, task_id)
             task == [popped EXCEPT !.status = PROCESSING, !.started_at = now,
                                    !.created_at = now]
         IN  /\ tasks' = DictPop(tasks, task_id)
             /\ processing_tasks' = DictSet(processing_tasks, task.id, task)
             /\ UNCHANGED <<completed_tasks, failed_tasks>>
             /\ ret' = Ret("dequeue", NoneStr, NoneStr, TRUE, <<task>>)

InMemoryQueue_dequeue(now) ==
    IF tasks = <<>>
    THEN /\ ret' = Ret("dequeue", NoneStr, NoneStr, FALSE, <<>>)
         /\ UNCHANGED containers
    ELSE LET task_id == OldestTaskId(tasks)
             popped == DictGet(tasks, task_id)
             task == [popped EXCEPT !.status = PROCESSING, !.started_at = now]
         IN  /\ tasks' = DictPop(tasks, task_id)
             /\ processing_tasks' = DictSet(processing_tasks, task.id, task)
             /\ UNCHANGED <<completed_tasks, failed_tasks>>
             /\ ret' = Ret("dequeue", NoneStr, NoneStr, TRUE, <<task>>)

\* mutant: True also for an id that is not in processing_tasks
InMemoryQueue_complete_task_always_true(task_id, result, now) ==
    IF task_id \notin Keys(processing_tasks)
    THEN /\ ret' = Ret("complete_task", task_id, result, TRUE, <<>>)
         /\ UNCHANGED containers
    ELSE LET popped == DictGet(processing_tasks, task_id)
             task == [popped EXCEPT !.status = COMPLETED, !.completed_at = now]
         IN  /\ processing_tasks' = DictPop(processing_tasks, task_id)
             /\ completed_tasks' = DictSet(completed_tasks, task_id, task)
             /\ UNCHANGED <<tasks, failed_tasks>>
             /\ ret' = Ret("complete_task", task_id, result, TRUE, <<>>)

InMemoryQueue_complete_task(task_id, result, now) ==
    IF task_id \notin Keys(processing_tasks)
    THEN /\ ret' = Ret("complete_task", task_id, result, FALSE, <<>>)
         /\ UNCHANGED containers
    ELSE LET popped == DictGet(processing_tasks, task_id)
             task == [popped EXCEPT !.status = COMPLETED, !.completed_at = now]
         IN  /\ processing_tasks' = DictPop(processing_tasks, task_id)
             /\ completed_tasks' = DictSet(completed_tasks, task_id, task)
             /\ UNCHANGED <<tasks, failed_tasks>>
             /\ ret' = Ret("complete_task", task_id, result, TRUE, <<>>)

\* mutant: the retry branch leaves completed_at as the failure set it
InMemoryQueue_fail_task_keeps_completed_at(task_id, error_message, now) ==
    IF task_id \notin Keys(processing_tasks)
    THEN /\ ret' = Ret("fail_task", task_id, error_message, FALSE, <<>>)
         /\ UNCHANGED containers
    ELSE LET popped == DictGet(processing_tasks, task_id)
             failed == [popped EXCEPT !.status = FAILED,
                                      !.completed_at = now,
                                      !.error_message = error_message,
                                      !.retry_count = @ + 1]
             retry == [failed EXCEPT !.status = QUEUED,
                                     !.started_at = None]
         IN  /\ processing_tasks' = DictPop(processing_tasks, task_id)
             /\ IF UnderMaxRetries(failed)
                THEN /\ tasks' = DictSet(tasks, task_id, retry)
                     /\ UNCHANGED failed_tasks
                ELSE /\ failed_tasks' = DictSet(failed_tasks, task_id, failed)
                     /\ UNCHANGED tasks
             /\ UNCHANGED completed_tasks
             /\ ret' = Ret("fail_task", task_id, error_message, TRUE, <<>>)

InMemoryQueue_fail_task(task_id, error_message, now) ==
    IF task_id \notin Keys(processing_tasks)
    THEN /\ ret' = Ret("fail_task", task_id, error_message, FALSE, <<>>)
         /\ UNCHANGED containers
    ELSE LET popped == DictGet(processing_tasks, task_id)
             failed == [popped EXCEPT !.status = FAILED,
                                      !.completed_at = now,
                                      !.error_message = error_message,
                                      !.retry_count = @ + 1]
             retry == [failed EXCEPT !.status = QUEUED,
                                     !.started_at = None,
                                     !.completed_at = None]
         IN  /\ processing_tasks' = DictPop(processing_tasks, task_id)
             /\ IF UnderMaxRetries(failed)
                THEN /\ tasks' = DictSet(tasks, task_id, retry)
                     /\ UNCHANGED failed_tasks
                ELSE /\ failed_tasks' = DictSet(failed_tasks, task_id, failed)
                     /\ UNCHANGED tasks
             /\ UNCHANGED completed_tasks
             /\ ret' = Ret("fail_task", task_id, error_message, TRUE, <<>>)

\* the first of the four dicts, in the order of the scan, that holds task_id
FindTask(task_id) ==
    IF task_id \in Keys(tasks) THEN <<DictGet(tasks, task_id)>>
    ELSE IF task_id \in Keys(processing_tasks)
         THEN <<DictGet(processing_tasks, task_id)>>
    ELSE IF task_id \in Keys(completed_tasks)
         THEN <<DictGet(completed_tasks, task_id)>>
    ELSE IF task_id \in Keys(failed_tasks)
         THEN <<DictGet(failed_tasks, task_id)>>
    ELSE <<>>

InMemoryQueue_get_task_status(task_id) ==
    /\ ret' = Ret("get_task_status", task_id, NoneStr,
                  FindTask(task_id) # <<>>, FindTask(task_id))
    /\ UNCHANGED containers

\* mutant: the failed tasks are left out of the total
QueueStats_total_without_failed ==
    [queued |-> Len(tasks),
     processing |-> Len(processing_tasks),
     completed |-> Len(completed_tasks),
     failed |-> Len(failed_tasks),
     total |-> Len(tasks) + Len(processing_tasks) + Len(completed_tasks)]

\* the dict get_queue_stats returns
QueueStats ==
    [queued |-> Len(tasks),
     processing |-> Len(processing_tasks),
     completed |-> Len(completed_tasks),
     failed |-> Len(failed_tasks),
     total |-> Len(tasks) + Len(processing_tasks)
               + Len(completed_tasks) + Len(failed_tasks)]

InMemoryQueue_get_queue_stats ==
    /\ ret' = Ret("get_queue_stats", NoneStr, NoneStr, TRUE, <<QueueStats>>)
    /\ UNCHANGED containers

(***************************************************************************)
(* Spec: callers of one InMemoryQueue.  A caller constructs a QueueTask    *)
(* (a new object each time, created_at=datetime.utcnow()) and enqueues it. *)
(* Every datetime.utcnow() returns the clock's value or the next one.      *)
(***************************************************************************)
Nows == {clock} \cup ({clock + 1} \cap Times)

\* no QueueManager: its fields and the Redis server are not in play
NoManager ==
    /\ redis_queue = <<>>
    /\ use_redis = FALSE
    /\ redis_list = <<>>
    /\ redis_hash = [id \in Ids |-> <<>>]

\* the callers come one at a time: no thread is inside a call
Threads == {1, 2}

NoThreads ==
    /\ lock = None
    /\ pc = [t \in Threads |-> "idle"]
    /\ frame = [t \in Threads |-> <<>>]
    /\ handed = {}
    /\ pending = <<>>

\* the uuid4 strings that /analyze draws for request r
AnalysisId(r) == <<"analysis", r>>
FilePath(r) == <<"data/blood_test_report", r>>

\* no /analyze request has come: the table analyses and the directory data are
\* empty
NoHttp ==
    /\ analyses = [a \in {AnalysisId(r) : r \in Threads} |-> <<>>]
    /\ files = {}

Init ==
    /\ InMemoryQueue_init
    /\ next_oid = 1
    /\ clock = 1
    /\ enqueued_ids = {}
    /\ ret = Ret("init", NoneStr, NoneStr, TRUE, <<>>)
    /\ NoManager
    /\ NoThreads
    /\ NoHttp

Enqueue ==
    /\ next_oid \in Oids
    /\ \E id \in Ids, ty \in TaskTypes, data \in Payloads,
          now \in Nows, max_retries \in 0 .. MaxRetries :
          /\ InMemoryQueue_enqueue(
                 QueueTask(next_oid, id, ty, data, now, max_retries))
          /\ enqueued_ids' = enqueued_ids \cup {id}
          /\ clock' = now
    /\ next_oid' = next_oid + 1
    /\ UNCHANGED <<managerVars, redisVars, threadVars, pending>>
    /\ UNCHANGED httpVars

Dequeue ==
    /\ \E now \in Nows : InMemoryQueue_dequeue(now) /\ clock' = now
    /\ UNCHANGED <<next_oid, enqueued_ids, managerVars, redisVars, threadVars, pending>>
    /\ UNCHANGED httpVars

CompleteTask ==
    /\ \E id \in Ids, result \in Results, now \in Nows :
          InMemoryQueue_complete_task(id, result, now) /\ clock' = now
    /\ UNCHANGED <<next_oid, enqueued_ids, managerVars, redisVars, threadVars, pending>>
    /\ UNCHANGED httpVars

FailTask ==
    /\ \E id \in Ids, msg \in ErrorMessages, now \in Nows :
          InMemoryQueue_fail_task(id, msg, now) /\ clock' = now
    /\ UNCHANGED <<next_oid, enqueued_ids, managerVars, redisVars, threadVars, pending>>
    /\ UNCHANGED httpVars

GetTaskStatus ==
    /\ \E id \in Ids : InMemoryQueue_get_task_status(id)
    /\ UNCHANGED <<next_oid, clock, enqueued_ids, managerVars, redisVars, threadVars, pending>>
    /\ UNCHANGED httpVars

GetQueueStats ==
    /\ InMemoryQueue_get_queue_stats
    /\ UNCHANGED <<next_oid, clock, enqueued_ids, managerVars, redisVars, threadVars, pending>>
    /\ UNCHANGED httpVars

Next ==
    \/ Enqueue
    \/ Dequeue
    \/ CompleteTask
    \/ FailTask
    \/ GetTaskStatus
    \/ GetQueueStats

Spec == Init /\ [][Next]_vars

(***************************************************************************)
(* The Redis client, as the code uses it.  A value of a hash is the bytes  *)
(* of what was written; a command either takes effect and returns or       *)
(* raises (the server cannot be reached, or the client rejects a value)    *)
(* and has no effect.                                                      *)
(***************************************************************************)
\* json.dumps(v), and json.loads(s), which raises unless s is JSON text
JsonDumps(v) == [json |-> v]
IsJson(s) == "json" \in DOMAIN s
JsonLoads(s) == s.json

\* the bytes of a value, and bytes.decode()
Bytes(v) == [bytes |-> v]
Decode(b) == b.bytes

\* datetime.isoformat(), and datetime.fromisoformat()
IsoFormat(t) == [iso |-> t]
FromIsoFormat(s) == s.iso

\* hset(key, field, value) and hset(key, mapping=m) on the hash h of key
HSet(h, field, value) ==
    [f \in DOMAIN h \cup {field} |-> IF f = field THEN Bytes(value) ELSE h[f]]
HSetMapping(h, m) ==
    [f \in DOMAIN h \cup DOMAIN m |-> IF f \in DOMAIN m THEN Bytes(m[f]) ELSE h[f]]

\* lpush(list, v): v is the new left end
LPush(list, v) == <<v>> \o list

(***************************************************************************)
(* RedisQueue.  raises names the Redis command of the call that raises,    *)
(* "none" when none does.                                                  *)
(***************************************************************************)
\* RedisQueue.__init__: import_ok is "import redis" succeeding, from_url_ok
\* is redis.from_url(redis_url) returning
RedisQueue_init(redis_url, import_ok, from_url_ok) ==
    [redis_available |-> import_ok /\ from_url_ok]

\* task_data of RedisQueue.enqueue
TaskData(task) ==
    [id |-> task.id, task_type |-> task.task_type, data |-> task.data,
     status |-> task.status, created_at |-> IsoFormat(task.created_at),
     retry_count |-> task.retry_count, max_retries |-> task.max_retries]

EnqueueRaises == {"none", "lpush", "hset"}

RedisQueue_enqueue(task, raises) ==
    IF ~redis_queue[1].redis_available
    THEN /\ ret' = Ret("enqueue", task.id, NoneStr, FALSE, <<>>)
         /\ UNCHANGED redisVars
    ELSE /\ redis_list' = IF raises = "lpush" THEN redis_list
                          ELSE LPush(redis_list, JsonDumps(TaskData(task)))
         /\ redis_hash' = IF raises = "none"
                          THEN [redis_hash EXCEPT
                                  ![task.id] = HSetMapping(@, TaskData(task))]
                          ELSE redis_hash
         /\ ret' = Ret("enqueue", task.id, NoneStr, raises = "none", <<>>)

DequeueRaises == {"none", "brpop", "hset_status", "hset_started_at"}

\* mutant: dequeue deletes the record task:<id> of the entry it took
RedisQueue_dequeue_deletes_record(now, raises) ==
    IF \/ ~redis_queue[1].redis_available
       \/ raises = "brpop"
       \/ redis_list = <<>>
    THEN /\ ret' = Ret("dequeue", NoneStr, NoneStr, FALSE, <<>>)
         /\ UNCHANGED redisVars
    ELSE LET task_json == JsonLoads(redis_list[Len(redis_list)])
             task == [oid |-> 0,
                      id |-> task_json.id,
                      task_type |-> task_json.task_type,
                      data |-> task_json.data,
                      status |-> PROCESSING,
                      created_at |-> FromIsoFormat(task_json.created_at),
                      started_at |-> now,
                      completed_at |-> None,
                      error_message |-> NoneStr,
                      retry_count |-> task_json.retry_count,
                      max_retries |-> task_json.max_retries]
         IN  /\ redis_list' = SubSeq(redis_list, 1, Len(redis_list) - 1)
             /\ redis_hash' = [redis_hash EXCEPT ![task.id] = <<>>]
             /\ ret' = Ret("dequeue", NoneStr, NoneStr, raises = "none",
                           IF raises = "none" THEN <<task>> ELSE <<>>)

\* brpop(list, timeout=1) returns None when the list stays empty
RedisQueue_dequeue(now, raises) ==
    IF \/ ~redis_queue[1].redis_available
       \/ raises = "brpop"
       \/ redis_list = <<>>
    THEN /\ ret' = Ret("dequeue", NoneStr, NoneStr, FALSE, <<>>)
         /\ UNCHANGED redisVars
    ELSE LET task_json == JsonLoads(redis_list[Len(redis_list)])
             task == [oid |-> 0,
                      id |-> task_json.id,
                      task_type |-> task_json.task_type,
                      data |-> task_json.data,
                      status |-> PROCESSING,
                      created_at |-> FromIsoFormat(task_json.created_at),
                      started_at |-> now,
                      completed_at |-> None,
                      error_message |-> NoneStr,
                      retry_count |-> task_json.retry_count,
                      max_retries |-> task_json.max_retries]
         IN  /\ redis_list' = SubSeq(redis_list, 1, Len(redis_list) - 1)
             /\ redis_hash' =
                  [redis_hash EXCEPT ![task.id] =
                     CASE raises = "hset_status" -> @
                       [] raises = "hset_started_at" ->
                            HSet(@, "status", PROCESSING)
                       [] OTHER ->
                            HSet(HSet(@, "status", PROCESSING),
                                 "started_at", IsoFormat(task.started_at))]
             /\ ret' = Ret("dequeue", NoneStr, NoneStr, raises = "none",
                           IF raises = "none" THEN <<task>> ELSE <<>>)

(***************************************************************************)
(* QueueManager                                                            *)
(***************************************************************************)
\* QueueTask.max_retries: int = 3
DefaultMaxRetries == 3

\* QueueManager.__init__(redis_url)
QueueManager_init(redis_url, import_ok, from_url_ok) ==
    /\ InMemoryQueue_init
    /\ IF redis_url \notin {NoneStr, ""}
       THEN /\ redis_queue = <<RedisQueue_init(redis_url, import_ok, from_url_ok)>>
            /\ use_redis = redis_queue[1].redis_available
       ELSE /\ redis_queue = <<>>
            /\ use_redis = FALSE

\* mutant: a Redis failure makes the manager fall back to the in-memory queue
QueueManager_enqueue_task_failover(task_id, task_type, data, now, raises) ==
    LET task == QueueTask(next_oid, task_id, task_type, data, now,
                          DefaultMaxRetries)
    IN  IF use_redis /\ raises = "none"
        THEN /\ RedisQueue_enqueue(task, raises)
             /\ UNCHANGED <<containers, managerVars>>
        ELSE /\ InMemoryQueue_enqueue(task)
             /\ use_redis' = FALSE
             /\ UNCHANGED <<redisVars, redis_queue>>

QueueManager_enqueue_task(task_id, task_type, data, now, raises) ==
    LET task == QueueTask(next_oid, task_id, task_type, data, now,
                          DefaultMaxRetries)
    IN  /\ IF use_redis
           THEN RedisQueue_enqueue(task, raises) /\ UNCHANGED containers
           ELSE InMemoryQueue_enqueue(task) /\ UNCHANGED redisVars
        /\ UNCHANGED managerVars

QueueManager_get_next_task(now, raises) ==
    /\ IF use_redis
       THEN RedisQueue_dequeue(now, raises) /\ UNCHANGED containers
       ELSE InMemoryQueue_dequeue(now) /\ UNCHANGED redisVars
    /\ UNCHANGED managerVars

CompleteRaises == {"none", "hset_status", "hset_completed_at", "hset_result"}

QueueManager_complete_task(task_id, result, now, raises) ==
    /\ IF use_redis
       THEN LET raised == \/ raises \in {"hset_status", "hset_completed_at"}
                          \/ raises = "hset_result" /\ Truthy(result)
            IN  /\ redis_hash' =
                     [redis_hash EXCEPT ![task_id] =
                        CASE raises = "hset_status" -> @
                          [] raises = "hset_completed_at" ->
                               HSet(@, "status", COMPLETED)
                          [] raises = "hset_result" \/ ~Truthy(result) ->
                               HSet(HSet(@, "status", COMPLETED),
                                    "completed_at", IsoFormat(now))
                          [] OTHER ->
                               HSet(HSet(HSet(@, "status", COMPLETED),
                                         "completed_at", IsoFormat(now)),
                                    "result", result)]
                /\ ret' = Ret("complete_task", task_id, result, ~raised, <<>>)
                /\ UNCHANGED <<redis_list, containers>>
       ELSE InMemoryQueue_complete_task(task_id, result, now)
            /\ UNCHANGED redisVars
    /\ UNCHANGED managerVars

FailRaises == {"none", "hset_status", "hset_completed_at", "hset_error_message"}

\* mutant: True also when a Redis command raised
QueueManager_fail_task_true_on_failure(task_id, error_message, now, raises) ==
    /\ IF use_redis
       THEN /\ redis_hash' =
                 [redis_hash EXCEPT ![task_id] =
                    CASE raises = "hset_status" -> @
                      [] raises = "hset_completed_at" ->
                           HSet(@, "status", FAILED)
                      [] raises = "hset_error_message" ->
                           HSet(HSet(@, "status", FAILED),
                                "completed_at", IsoFormat(now))
                      [] OTHER ->
                           HSet(HSet(HSet(@, "status", FAILED),
                                     "completed_at", IsoFormat(now)),
                                "error_message", error_message)]
            /\ ret' = Ret("fail_task", task_id, error_message, TRUE, <<>>)
            /\ UNCHANGED <<redis_list, containers>>
       ELSE InMemoryQueue_fail_task(task_id, error_message, now)
            /\ UNCHANGED redisVars
    /\ UNCHANGED managerVars

QueueManager_fail_task(task_id, error_message, now, raises) ==
    /\ IF use_redis
       THEN /\ redis_hash' =
                 [redis_hash EXCEPT ![task_id] =
                    CASE raises = "hset_status" -> @
                      [] raises = "hset_completed_at" ->
                           HSet(@, "status", FAILED)
                      [] raises = "hset_error_message" ->
                           HSet(HSet(@, "status", FAILED),
                                "completed_at", IsoFormat(now))
                      [] OTHER ->
                           HSet(HSet(HSet(@, "status", FAILED),
                                     "completed_at", IsoFormat(now)),
                                "error_message", error_message)]
            /\ ret' = Ret("fail_task", task_id, error_message,
                          raises = "none", <<>>)
            /\ UNCHANGED <<redis_list, containers>>
       ELSE InMemoryQueue_fail_task(task_id, error_message, now)
            /\ UNCHANGED redisVars
    /\ UNCHANGED managerVars

\* the fields get_task_status indexes without a test
RequiredFields == {"id", "task_type", "data", "status", "created_at",
                   "retry_count", "max_retries"}

\* the QueueTask get_task_status builds of the hash task_data
TaskOfHash(task_data) ==
    [oid |-> 0,
     id |-> Decode(task_data.id),
     task_type |-> Decode(task_data.task_type),
     data |-> JsonLoads(Decode(task_data.data)),
     status |-> Decode(task_data.status),
     created_at |-> FromIsoFormat(Decode(task_data.created_at)),
     started_at |-> IF "started_at" \in DOMAIN task_data
                    THEN FromIsoFormat(Decode(task_data.started_at))
                    ELSE None,
     completed_at |-> IF "completed_at" \in DOMAIN task_data
                      THEN FromIsoFormat(Decode(task_data.completed_at))
                      ELSE None,
     error_message |-> IF "error_message" \in DOMAIN task_data
                       THEN Decode(task_data.error_message)
                       ELSE NoneStr,
     retry_count |-> Decode(task_data.retry_count),
     max_retries |-> Decode(task_data.max_retries)]

\* building the QueueTask raises: a field is missing (KeyError) or data is
\* not JSON text (json.JSONDecodeError)
TaskOfHashRaises(task_data) ==
    \/ ~(RequiredFields \subseteq DOMAIN task_data)
    \/ ~IsJson(Decode(task_data.data))

StatusRaises == {"none", "hgetall"}

\* mutant: only a missing record gives None
QueueManager_get_task_status_of_any_record(task_id, raises) ==
    /\ IF use_redis
       THEN LET task_data == redis_hash[task_id]
                none == \/ raises = "hgetall"
                        \/ task_data = <<>>
            IN  /\ ret' = Ret("get_task_status", task_id, NoneStr, ~none,
                              IF none THEN <<>>
                              ELSE IF TaskOfHashRaises(task_data)
                                   THEN <<task_data>>
                                   ELSE <<TaskOfHash(task_data)>>)
                /\ UNCHANGED <<redisVars, containers>>
       ELSE InMemoryQueue_get_task_status(task_id) /\ UNCHANGED redisVars
    /\ UNCHANGED managerVars

QueueManager_get_task_status(task_id, raises) ==
    /\ IF use_redis
       THEN LET task_data == redis_hash[task_id]
                none == \/ raises = "hgetall"
                        \/ task_data = <<>>
                        \/ TaskOfHashRaises(task_data)
            IN  /\ ret' = Ret("get_task_status", task_id, NoneStr, ~none,
                              IF none THEN <<>> ELSE <<TaskOfHash(task_data)>>)
                /\ UNCHANGED <<redisVars, containers>>
       ELSE InMemoryQueue_get_task_status(task_id) /\ UNCHANGED redisVars
    /\ UNCHANGED managerVars

StatsRaises == {"none", "llen"}

QueueManager_get_queue_stats(raises) ==
    /\ IF use_redis
       THEN /\ ret' = IF raises = "llen"
                      THEN Ret("get_queue_stats", NoneStr, NoneStr, FALSE,
                               <<[error |-> "llen"]>>)
                      ELSE Ret("get_queue_stats", NoneStr, NoneStr, TRUE,
                               <<[backend |-> "redis",
                                  queued |-> Len(redis_list),
                                  processing |-> "N/A",
                                  completed |-> "N/A",
                                  failed |-> "N/A"]>>)
            /\ UNCHANGED containers
       ELSE /\ ret' = Ret("get_queue_stats", NoneStr, NoneStr, TRUE,
                          <<SetItem(QueueStats, "backend", "in-memory")>>)
            /\ UNCHANGED containers
    /\ UNCHANGED <<managerVars, redisVars, threadVars>>

HealthRaises == {"none", "ping"}

QueueManager_health_check(raises) ==
    /\ ret' = IF use_redis /\ raises = "ping"
              THEN Ret("health_check", NoneStr, NoneStr, FALSE,
                       <<[status |-> "unhealthy", error |-> "ping"]>>)
              ELSE Ret("health_check", NoneStr, NoneStr, TRUE,
                       <<[status |-> "healthy",
                          backend |-> IF use_redis THEN "redis"
                                      ELSE "in-memory"]>>)
    /\ UNCHANGED <<containers, managerVars, redisVars, threadVars>>

(***************************************************************************)
(* SpecMgr: one caller of one QueueManager.                                *)
(***************************************************************************)
\* the task ids the caller uses
MgrIds == {"t1"}

\* whether the server at redis_url can be reached while the QueueManager is
\* constructed; __init__ sends it no command (redis.from_url only builds
\* the client), so what from_url does is not a matter of it
Endpoints(redis_url) ==
    IF redis_url \in {NoneStr, ""} THEN {NoneStr}
    ELSE {"reachable", "unreachable"}

InitMgr ==
    /\ \E redis_url \in RedisUrls, import_ok \in BOOLEAN,
          from_url_ok \in BOOLEAN :
          /\ QueueManager_init(redis_url, import_ok, from_url_ok)
          /\ \E endpoint \in Endpoints(redis_url) :
                ret = Ret("init", redis_url, endpoint, TRUE, <<>>)
    /\ redis_list = <<>>
    /\ redis_hash = [id \in Ids |-> <<>>]
    /\ next_oid = 1
    /\ clock = 1
    /\ enqueued_ids = {}
    /\ NoThreads
    /\ NoHttp

MgrEnqueueTask ==
    /\ next_oid \in Oids
    /\ \E id \in MgrIds, ty \in TaskTypes, data \in Payloads, now \in Nows,
          raises \in EnqueueRaises :
          /\ QueueManager_enqueue_task(id, ty, data, now, raises)
          /\ enqueued_ids' = enqueued_ids \cup {id}
          /\ clock' = now
    /\ next_oid' = next_oid + 1
    /\ UNCHANGED <<threadVars, pending>>
    /\ UNCHANGED httpVars

MgrGetNextTask ==
    /\ \E now \in Nows, raises \in DequeueRaises :
          QueueManager_get_next_task(now, raises) /\ clock' = now
    /\ UNCHANGED <<next_oid, enqueued_ids, threadVars, pending>>
    /\ UNCHANGED httpVars

MgrCompleteTask ==
    /\ \E id \in MgrIds, result \in Results \cup {""}, now \in Nows,
          raises \in CompleteRaises :
          QueueManager_complete_task(id, result, now, raises) /\ clock' = now
    /\ UNCHANGED <<next_oid, enqueued_ids, threadVars, pending>>
    /\ UNCHANGED httpVars

MgrFailTask ==
    /\ \E id \in MgrIds, msg \in ErrorMessages, now \in Nows,
          raises \in FailRaises :
          QueueManager_fail_task(id, msg, now, raises) /\ clock' = now
    /\ UNCHANGED <<next_oid, enqueued_ids, threadVars, pending>>
    /\ UNCHANGED httpVars

MgrGetTaskStatus ==
    /\ \E id \in MgrIds, raises \in StatusRaises :
          QueueManager_get_task_status(id, raises)
    /\ UNCHANGED <<next_oid, clock, enqueued_ids, threadVars, pending>>
    /\ UNCHANGED httpVars

MgrGetQueueStats ==
    /\ \E raises \in StatsRaises : QueueManager_get_queue_stats(raises)
    /\ UNCHANGED <<next_oid, clock, enqueued_ids, threadVars, pending>>
    /\ UNCHANGED httpVars

MgrHealthCheck ==
    /\ \E raises \in HealthRaises : QueueManager_health_check(raises)
    /\ UNCHANGED <<next_oid, clock, enqueued_ids, threadVars, pending>>
    /\ UNCHANGED httpVars

NextMgr ==
    \/ MgrEnqueueTask
    \/ MgrGetNextTask
    \/ MgrCompleteTask
    \/ MgrFailTask
    \/ MgrGetTaskStatus
    \/ MgrGetQueueStats
    \/ MgrHealthCheck

SpecMgr == InitMgr /\ [][NextMgr]_vars

(***************************************************************************)
(* SpecThreads: threads that call one InMemoryQueue.  "with self._lock"    *)
(* is entered by a thread only when no thread holds the lock, and the lock *)
(* is released when the block is left.  A block that takes a task out of   *)
(* one dict and puts it into another is two steps: between them the task   *)
(* is in the thread's local variable and in no dict.                       *)
(***************************************************************************)
InitThreads ==
    /\ InMemoryQueue_init
    /\ next_oid = 1
    /\ clock = 1
    /\ enqueued_ids = {}
    /\ ret = Ret("init", NoneStr, NoneStr, TRUE, <<>>)
    /\ NoManager
    /\ NoThreads
    /\ NoHttp

\* the thread leaves the with block and returns
Return(t, r) ==
    /\ lock' = None
    /\ pc' = [pc EXCEPT ![t] = "idle"]
    /\ frame' = [frame EXCEPT ![t] = <<>>]
    /\ ret' = r

\* the thread stays in the with block, its locals being f
Goto(t, label, f) ==
    /\ lock' = t
    /\ pc' = [pc EXCEPT ![t] = label]
    /\ frame' = [frame EXCEPT ![t] = f]
    /\ UNCHANGED ret

\* the caller constructs the QueueTask and calls enqueue(task)
ThreadCallEnqueue(t) ==
    /\ pc[t] = "idle"
    /\ next_oid \in Oids
    /\ \E id \in Ids, ty \in TaskTypes, data \in Payloads,
          now \in Nows, max_retries \in 0 .. MaxRetries :
          /\ frame' = [frame EXCEPT ![t] =
                 [task |-> QueueTask(next_oid, id, ty, data, now, max_retries)]]
          /\ clock' = now
    /\ pc' = [pc EXCEPT ![t] = "enqueue"]
    /\ next_oid' = next_oid + 1
    /\ UNCHANGED <<containers, lock, ret, enqueued_ids, handed,
                   managerVars, redisVars, pending>>
    /\ UNCHANGED httpVars

\* enqueue: with self._lock: self.tasks[task.id] = task; return True
ThreadEnqueue(t) ==
    /\ pc[t] = "enqueue"
    /\ lock = None
    /\ tasks' = DictSet(tasks, frame[t].task.id, frame[t].task)
    /\ Return(t, Ret("enqueue", frame[t].task.id, NoneStr, TRUE, <<>>))
    /\ enqueued_ids' = enqueued_ids \cup {frame[t].task.id}
    /\ UNCHANGED <<processing_tasks, completed_tasks, failed_tasks, next_oid,
                   clock, handed, managerVars, redisVars, pending>>
    /\ UNCHANGED httpVars

\* dequeue, to task = self.tasks.pop(task_id)
ThreadDequeuePop(t) ==
    /\ pc[t] = "idle"
    /\ lock = None
    /\ IF tasks = <<>>
       THEN /\ Return(t, Ret("dequeue", NoneStr, NoneStr, FALSE, <<>>))
            /\ UNCHANGED tasks
       ELSE LET task_id == OldestTaskId(tasks)
            IN  /\ tasks' = DictPop(tasks, task_id)
                /\ Goto(t, "dequeue", [task |-> DictGet(tasks, task_id)])
    /\ UNCHANGED <<processing_tasks, completed_tasks, failed_tasks, next_oid,
                   clock, enqueued_ids, handed, managerVars, redisVars, pending>>
    /\ UNCHANGED httpVars

\* dequeue, from task.status = TaskStatus.PROCESSING to return task
ThreadDequeueMove(t) ==
    /\ pc[t] = "dequeue"
    /\ \E now \in Nows :
          LET task == [frame[t].task EXCEPT !.status = PROCESSING,
                                            !.started_at = now]
          IN  /\ processing_tasks' = DictSet(processing_tasks, task.id, task)
              /\ Return(t, Ret("dequeue", NoneStr, NoneStr, TRUE, <<task>>))
              /\ handed' = handed \cup {task.oid}
              /\ clock' = now
    /\ UNCHANGED <<tasks, completed_tasks, failed_tasks, next_oid,
                   enqueued_ids, managerVars, redisVars, pending>>
    /\ UNCHANGED httpVars

\* complete_task, to task = self.processing_tasks.pop(task_id)
ThreadCompletePop(t) ==
    /\ pc[t] = "idle"
    /\ lock = None
    /\ \E task_id \in Ids, result \in Results :
          IF task_id \notin Keys(processing_tasks)
          THEN /\ Return(t, Ret("complete_task", task_id, result, FALSE, <<>>))
               /\ UNCHANGED processing_tasks
          ELSE /\ processing_tasks' = DictPop(processing_tasks, task_id)
               /\ Goto(t, "complete_task",
                       [task |-> DictGet(processing_tasks, task_id),
                        result |-> result])
    /\ UNCHANGED <<tasks, completed_tasks, failed_tasks, next_oid, clock,
                   enqueued_ids, handed, managerVars, redisVars, pending>>
    /\ UNCHANGED httpVars

\* complete_task, from task.status = TaskStatus.COMPLETED to return True
ThreadCompleteMove(t) ==
    /\ pc[t] = "complete_task"
    /\ \E now \in Nows :
          LET task == [frame[t].task EXCEPT !.status = COMPLETED,
                                            !.completed_at = now]
          IN  /\ completed_tasks' = DictSet(completed_tasks, task.id, task)
              /\ Return(t, Ret("complete_task", task.id, frame[t].result,
                               TRUE, <<>>))
              /\ clock' = now
    /\ UNCHANGED <<tasks, processing_tasks, failed_tasks, next_oid,
                   enqueued_ids, handed, managerVars, redisVars, pending>>
    /\ UNCHANGED httpVars

\* fail_task, to task = self.processing_tasks.pop(task_id)
ThreadFailPop(t) ==
    /\ pc[t] = "idle"
    /\ lock = None
    /\ \E task_id \in Ids, error_message \in ErrorMessages :
          IF task_id \notin Keys(processing_tasks)
          THEN /\ Return(t, Ret("fail_task", task_id, error_message, FALSE,
                               <<>>))
               /\ UNCHANGED processing_tasks
          ELSE /\ processing_tasks' = DictPop(processing_tasks, task_id)
               /\ Goto(t, "fail_task",
                       [task |-> DictGet(processing_tasks, task_id),
                        error_message |-> error_message])
    /\ UNCHANGED <<tasks, completed_tasks, failed_tasks, next_oid, clock,
                   enqueued_ids, handed, managerVars, redisVars, pending>>
    /\ UNCHANGED httpVars

\* fail_task, from task.status = TaskStatus.FAILED to return True
ThreadFailMove(t) ==
    /\ pc[t] = "fail_task"
    /\ \E now \in Nows :
          LET failed == [frame[t].task EXCEPT
                             !.status = FAILED,
                             !.completed_at = now,
                             !.error_message = frame[t].error_message,
                             !.retry_count = @ + 1]
              retry == [failed EXCEPT !.status = QUEUED,
                                      !.started_at = None,
                                      !.completed_at = None]
          IN  /\ IF UnderMaxRetries(failed)
                 THEN /\ tasks' = DictSet(tasks, failed.id, retry)
                      /\ handed' = handed \ {failed.oid}
                      /\ UNCHANGED failed_tasks
                 ELSE /\ failed_tasks' = DictSet(failed_tasks, failed.id, failed)
                      /\ UNCHANGED <<tasks, handed>>
              /\ Return(t, Ret("fail_task", failed.id, frame[t].error_message,
                               TRUE, <<>>))
              /\ clock' = now
    /\ UNCHANGED <<processing_tasks, completed_tasks, next_oid, enqueued_ids,
                   managerVars, redisVars, pending>>
    /\ UNCHANGED httpVars

\* mutant: the scan runs without taking the lock
ThreadGetTaskStatus_without_lock(t) ==
    /\ pc[t] = "idle"
    /\ \E task_id \in Ids :
          ret' = Ret("get_task_status", task_id, NoneStr,
                     FindTask(task_id) # <<>>, FindTask(task_id))
    /\ UNCHANGED <<containers, next_oid, clock, enqueued_ids, handed,
                   managerVars, redisVars, pending, lock, pc, frame>>
    /\ UNCHANGED httpVars

\* get_task_status: the scan of the four dicts, in the with block
ThreadGetTaskStatus(t) ==
    /\ pc[t] = "idle"
    /\ lock = None
    /\ \E task_id \in Ids :
          Return(t, Ret("get_task_status", task_id, NoneStr,
                        FindTask(task_id) # <<>>, FindTask(task_id)))
    /\ UNCHANGED <<containers, next_oid, clock, enqueued_ids, handed,
                   managerVars, redisVars, pending>>
    /\ UNCHANGED httpVars

NextThreads ==
    \E t \in Threads :
        \/ ThreadCallEnqueue(t)
        \/ ThreadEnqueue(t)
        \/ ThreadDequeuePop(t)
        \/ ThreadDequeueMove(t)
        \/ ThreadCompletePop(t)
        \/ ThreadCompleteMove(t)
        \/ ThreadFailPop(t)
        \/ ThreadFailMove(t)
        \/ ThreadGetTaskStatus(t)

SpecThreads == InitThreads /\ [][NextThreads]_vars

(***************************************************************************)
(* SpecEquiv: one caller makes every call twice, first on a QueueManager   *)
(* on the in-memory queue and then, with the same arguments, on a          *)
(* QueueManager on Redis, where no Redis command raises.  The first        *)
(* manager only dispatches to its InMemoryQueue (queue_worker.py:239, 246, *)
(* 261, 275, 301): the four dicts are that queue.  use_redis, redis_queue  *)
(* and the Redis state are the second manager's.                           *)
(***************************************************************************)
Call(op, id, task_type, data, arg, now) ==
    [op |-> op, id |-> id, task_type |-> task_type, data |-> data,
     arg |-> arg, now |-> now]

InitEquiv ==
    /\ QueueManager_init("redis://localhost:6379", TRUE, TRUE)
    /\ redis_list = <<>>
    /\ redis_hash = [id \in Ids |-> <<>>]
    /\ next_oid = 1
    /\ clock = 1
    /\ enqueued_ids = {}
    /\ ret = Ret("init", NoneStr, NoneStr, TRUE, <<>>)
    /\ NoThreads
    /\ NoHttp

EquivEnqueueTask ==
    /\ pending = <<>>
    /\ next_oid \in Oids
    /\ \E id \in MgrIds, ty \in TaskTypes, data \in Payloads, now \in Nows :
          /\ InMemoryQueue_enqueue(
                 QueueTask(next_oid, id, ty, data, now, DefaultMaxRetries))
          /\ pending' = <<Call("enqueue", id, ty, data, NoneStr, now)>>
          /\ enqueued_ids' = enqueued_ids \cup {id}
          /\ clock' = now
    /\ next_oid' = next_oid + 1
    /\ UNCHANGED <<managerVars, redisVars, threadVars>>
    /\ UNCHANGED httpVars

EquivGetNextTask ==
    /\ pending = <<>>
    /\ \E now \in Nows :
          /\ InMemoryQueue_dequeue(now)
          /\ pending' = <<Call("dequeue", NoneStr, NoneStr, NoneStr, NoneStr,
                               now)>>
          /\ clock' = now
    /\ UNCHANGED <<next_oid, enqueued_ids, managerVars, redisVars, threadVars>>
    /\ UNCHANGED httpVars

EquivCompleteTask ==
    /\ pending = <<>>
    /\ \E id \in MgrIds, result \in Results, now \in Nows :
          /\ InMemoryQueue_complete_task(id, result, now)
          /\ pending' = <<Call("complete_task", id, NoneStr, NoneStr, result,
                               now)>>
          /\ clock' = now
    /\ UNCHANGED <<next_oid, enqueued_ids, managerVars, redisVars, threadVars>>
    /\ UNCHANGED httpVars

EquivFailTask ==
    /\ pending = <<>>
    /\ \E id \in MgrIds, msg \in ErrorMessages, now \in Nows :
          /\ InMemoryQueue_fail_task(id, msg, now)
          /\ pending' = <<Call("fail_task", id, NoneStr, NoneStr, msg, now)>>
          /\ clock' = now
    /\ UNCHANGED <<next_oid, enqueued_ids, managerVars, redisVars, threadVars>>
    /\ UNCHANGED httpVars

EquivGetTaskStatus ==
    /\ pending = <<>>
    /\ \E id \in MgrIds :
          /\ InMemoryQueue_get_task_status(id)
          /\ pending' = <<Call("get_task_status", id, NoneStr, NoneStr,
                               NoneStr, clock)>>
    /\ UNCHANGED <<next_oid, clock, enqueued_ids, managerVars, redisVars,
                   threadVars>>
    /\ UNCHANGED httpVars

\* the pending call, made on the manager on Redis
EquivReplay ==
    /\ pending # <<>>
    /\ LET c == pending[1]
       IN  CASE c.op = "enqueue" ->
                  QueueManager_enqueue_task(c.id, c.task_type, c.data, c.now,
                                            "none")
             [] c.op = "dequeue" ->
                  QueueManager_get_next_task(c.now, "none")
             [] c.op = "complete_task" ->
                  QueueManager_complete_task(c.id, c.arg, c.now, "none")
             [] c.op = "fail_task" ->
                  QueueManager_fail_task(c.id, c.arg, c.now, "none")
             [] OTHER ->
                  QueueManager_get_task_status(c.id, "none")
    /\ pending' = <<>>
    /\ UNCHANGED <<next_oid, clock, enqueued_ids, threadVars>>
    /\ UNCHANGED httpVars

NextEquiv ==
    \/ EquivEnqueueTask
    \/ EquivGetNextTask
    \/ EquivCompleteTask
    \/ EquivFailTask
    \/ EquivGetTaskStatus
    \/ EquivReplay

SpecEquiv == InitEquiv /\ [][NextEquiv]_vars

(***************************************************************************)
(* SpecWorkers: workers that call enqueue_task, get_next_task and          *)
(* get_task_status of QueueManagers on the same Redis server, where no     *)
(* Redis command raises.  Every Redis command is one step of the server;   *)
(* between two commands of one call the other workers run.                 *)
(***************************************************************************)
InitWorkers ==
    /\ QueueManager_init("redis://localhost:6379", TRUE, TRUE)
    /\ redis_list = <<>>
    /\ redis_hash = [id \in Ids |-> <<>>]
    /\ next_oid = 1
    /\ clock = 1
    /\ enqueued_ids = {}
    /\ ret = Ret("init", NoneStr, NoneStr, TRUE, <<>>)
    /\ NoThreads
    /\ NoHttp

\* the worker goes on to the next command of its call, its locals being f
WorkerGoto(w, label, f) ==
    /\ pc' = [pc EXCEPT ![w] = label]
    /\ frame' = [frame EXCEPT ![w] = f]
    /\ UNCHANGED ret

\* the call of the worker returns
WorkerReturn(w, r) ==
    /\ pc' = [pc EXCEPT ![w] = "idle"]
    /\ frame' = [frame EXCEPT ![w] = <<>>]
    /\ ret' = r

\* enqueue_task, to lpush("blood_analysis_queue", json.dumps(task_data))
WorkerEnqueueLPush(w) ==
    /\ pc[w] = "idle"
    /\ use_redis /\ redis_queue[1].redis_available
    /\ next_oid \in Oids
    /\ \E id \in Ids, ty \in TaskTypes, data \in Payloads, now \in Nows :
          LET task == QueueTask(next_oid, id, ty, data, now, DefaultMaxRetries)
          IN  /\ redis_list' = LPush(redis_list, JsonDumps(TaskData(task)))
              /\ WorkerGoto(w, "enqueue_hset", [task |-> task])
              /\ clock' = now
    /\ next_oid' = next_oid + 1
    /\ UNCHANGED <<containers, managerVars, redis_hash, enqueued_ids, lock,
                   handed, pending>>
    /\ UNCHANGED httpVars

\* enqueue_task, from hset(f"task:{task.id}", mapping=task_data)
WorkerEnqueueHSet(w) ==
    /\ pc[w] = "enqueue_hset"
    /\ LET task == frame[w].task
       IN  /\ redis_hash' = [redis_hash EXCEPT
                               ![task.id] = HSetMapping(@, TaskData(task))]
           /\ WorkerReturn(w, Ret("enqueue", task.id, NoneStr, TRUE, <<>>))
           /\ enqueued_ids' = enqueued_ids \cup {task.id}
    /\ UNCHANGED <<containers, managerVars, redis_list, next_oid, clock, lock,
                   handed, pending>>
    /\ UNCHANGED httpVars

\* mutant: the entry is read and left in the list
WorkerDequeueBRPop_leaves_entry(w) ==
    /\ pc[w] = "idle"
    /\ use_redis /\ redis_queue[1].redis_available
    /\ IF redis_list = <<>>
       THEN /\ WorkerReturn(w, Ret("dequeue", NoneStr, NoneStr, FALSE, <<>>))
            /\ UNCHANGED <<redis_list, clock>>
       ELSE \E now \in Nows :
              LET task_json == JsonLoads(redis_list[Len(redis_list)])
                  task == [oid |-> 0,
                           id |-> task_json.id,
                           task_type |-> task_json.task_type,
                           data |-> task_json.data,
                           status |-> PROCESSING,
                           created_at |-> FromIsoFormat(task_json.created_at),
                           started_at |-> now,
                           completed_at |-> None,
                           error_message |-> NoneStr,
                           retry_count |-> task_json.retry_count,
                           max_retries |-> task_json.max_retries]
              IN  /\ UNCHANGED redis_list
                  /\ WorkerGoto(w, "dequeue_hset_status", [task |-> task])
                  /\ clock' = now
    /\ UNCHANGED <<containers, managerVars, redis_hash, next_oid, enqueued_ids,
                   lock, handed, pending>>
    /\ UNCHANGED httpVars

\* get_next_task, to the construction of the QueueTask
WorkerDequeueBRPop(w) ==
    /\ pc[w] = "idle"
    /\ use_redis /\ redis_queue[1].redis_available
    /\ IF redis_list = <<>>
       THEN /\ WorkerReturn(w, Ret("dequeue", NoneStr, NoneStr, FALSE, <<>>))
            /\ UNCHANGED <<redis_list, clock>>
       ELSE \E now \in Nows :
              LET task_json == JsonLoads(redis_list[Len(redis_list)])
                  task == [oid |-> 0,
                           id |-> task_json.id,
                           task_type |-> task_json.task_type,
                           data |-> task_json.data,
                           status |-> PROCESSING,
                           created_at |-> FromIsoFormat(task_json.created_at),
                           started_at |-> now,
                           completed_at |-> None,
                           error_message |-> NoneStr,
                           retry_count |-> task_json.retry_count,
                           max_retries |-> task_json.max_retries]
              IN  /\ redis_list' = SubSeq(redis_list, 1, Len(redis_list) - 1)
                  /\ WorkerGoto(w, "dequeue_hset_status", [task |-> task])
                  /\ clock' = now
    /\ UNCHANGED <<containers, managerVars, redis_hash, next_oid, enqueued_ids,
                   lock, handed, pending>>
    /\ UNCHANGED httpVars

\* get_next_task: hset(f"task:{task.id}", "status", "processing")
WorkerDequeueHSetStatus(w) ==
    /\ pc[w] = "dequeue_hset_status"
    /\ redis_hash' = [redis_hash EXCEPT
                        ![frame[w].task.id] = HSet(@, "status", PROCESSING)]
    /\ WorkerGoto(w, "dequeue_hset_started_at", frame[w])
    /\ UNCHANGED <<containers, managerVars, redis_list, next_oid, clock,
                   enqueued_ids, lock, handed, pending>>
    /\ UNCHANGED httpVars

\* get_next_task, from hset(f"task:{task.id}", "started_at", ...)
WorkerDequeueHSetStartedAt(w) ==
    /\ pc[w] = "dequeue_hset_started_at"
    /\ LET task == frame[w].task
       IN  /\ redis_hash' = [redis_hash EXCEPT ![task.id] =
                  HSet(@, "started_at", IsoFormat(task.started_at))]
           /\ WorkerReturn(w, Ret("dequeue", NoneStr, NoneStr, TRUE, <<task>>))
    /\ UNCHANGED <<containers, managerVars, redis_list, next_oid, clock,
                   enqueued_ids, lock, handed, pending>>
    /\ UNCHANGED httpVars

\* get_task_status: one hgetall
WorkerGetTaskStatus(w) ==
    /\ pc[w] = "idle"
    /\ use_redis
    /\ \E id \in Ids : QueueManager_get_task_status(id, "none")
    /\ UNCHANGED <<next_oid, clock, enqueued_ids, threadVars, pending>>
    /\ UNCHANGED httpVars

NextWorkers ==
    \E w \in Threads :
        \/ WorkerEnqueueLPush(w)
        \/ WorkerEnqueueHSet(w)
        \/ WorkerDequeueBRPop(w)
        \/ WorkerDequeueHSetStatus(w)
        \/ WorkerDequeueHSetStartedAt(w)
        \/ WorkerGetTaskStatus(w)

SpecWorkers == InitWorkers /\ [][NextWorkers]_vars

(***************************************************************************)
(* SpecLive: one InMemoryQueue whose workers keep calling dequeue and      *)
(* report every task they were given: dequeue is weakly fair, and so is,   *)
(* for every id, a complete_task or fail_task of that id that finds it in  *)
(* processing_tasks.                                                       *)
(***************************************************************************)
Reports(id) ==
    /\ CompleteTask \/ FailTask
    /\ ret'.id = id
    /\ ret'.ok

NextLive ==
    \/ Enqueue
    \/ Dequeue
    \/ CompleteTask
    \/ FailTask

SpecLive ==
    /\ Init
    /\ [][NextLive]_vars
    /\ WF_vars(Dequeue)
    /\ \A id \in Ids : WF_vars(Reports(id))

(***************************************************************************)
(* SpecHttp: the /analyze requests of src/main.py and their background     *)
(* jobs, on the table analyses of src/database.py.  A request is followed  *)
(* from one await to the next; requests interleave at the awaits.  Every   *)
(* method of DatabaseManager catches the exception of a statement that     *)
(* fails and returns False; os.remove may raise, and the callers pass.     *)
(***************************************************************************)
Filenames == {"report.pdf", "report.txt"}
IsPdf(filename) == filename = "report.pdf"
CrewOutcomes == {"success", "error"}

\* DatabaseManager.create_analysis: INSERT INTO analyses
DatabaseManager_create_analysis(analysis_id, status, raises) ==
    analyses' = IF raises THEN analyses
                ELSE [analyses EXCEPT ![analysis_id] =
                         <<[status |-> status, result |-> NoneStr]>>]

\* DatabaseManager.update_analysis_status: UPDATE analyses SET status = ?
\* WHERE id = ?, which changes no row when there is none
DatabaseManager_update_analysis_status(analysis_id, status, raises) ==
    analyses' = IF raises \/ analyses[analysis_id] = <<>> THEN analyses
                ELSE [analyses EXCEPT ![analysis_id] =
                         <<[@[1] EXCEPT !.status = status]>>]

\* DatabaseManager.update_analysis_result: UPDATE analyses SET status = ?,
\* result = ? WHERE id = ?
DatabaseManager_update_analysis_result(analysis_id, status, result, raises) ==
    analyses' = IF raises \/ analyses[analysis_id] = <<>> THEN analyses
                ELSE [analyses EXCEPT ![analysis_id] =
                         <<[status |-> status, result |-> result]>>]

\* the request goes on to label with response as its answer so far
HttpGoto(r, label, response) ==
    /\ pc' = [pc EXCEPT ![r] = label]
    /\ frame' = [frame EXCEPT ![r] = [response |-> response,
                                       crew |-> NoneStr]]

\* analyze_blood_report, to "await db_manager.create_analysis": the file
\* type is checked and the upload is written to file_path; when that raises,
\* the handler removes the file if it exists and answers 500
AnalyzeSaveFile(r) ==
    /\ pc[r] = "idle"
    /\ \E filename \in Filenames :
          IF ~IsPdf(filename)
          THEN HttpGoto(r, "answered", "400") /\ UNCHANGED files
          ELSE \E write_raises \in BOOLEAN, remove_raises \in BOOLEAN :
                  IF write_raises
                  THEN /\ HttpGoto(r, "answered", "500")
                       /\ files' = IF remove_raises
                                   THEN files \cup {FilePath(r)} ELSE files
                  ELSE /\ HttpGoto(r, "create_analysis", NoneStr)
                       /\ files' = files \cup {FilePath(r)}
    /\ UNCHANGED <<containers, managerVars, redisVars, next_oid, clock,
                   enqueued_ids, ret, lock, handed, pending, analyses>>

\* analyze_blood_report, from create_analysis (its result is not looked at)
\* to the response "queued", with the background job added
AnalyzeCreateAnalysis(r) ==
    /\ pc[r] = "create_analysis"
    /\ \E raises \in BOOLEAN :
          DatabaseManager_create_analysis(AnalysisId(r), "queued", raises)
    /\ HttpGoto(r, "background", "queued")
    /\ UNCHANGED <<containers, managerVars, redisVars, next_oid, clock,
                   enqueued_ids, ret, lock, handed, pending, files>>

\* process_analysis_background: update_analysis_status(id, "processing")
BackgroundUpdateStatus(r) ==
    /\ pc[r] = "background"
    /\ \E raises \in BOOLEAN :
          DatabaseManager_update_analysis_status(AnalysisId(r), "processing",
                                                 raises)
    /\ pc' = [pc EXCEPT ![r] = "run_crew"]
    /\ UNCHANGED <<containers, managerVars, redisVars, next_oid, clock,
                   enqueued_ids, ret, lock, handed, pending, files, frame>>

\* process_analysis_background: run_crew, which returns status "success", or
\* "error" when the crew raised
BackgroundRunCrew(r) ==
    /\ pc[r] = "run_crew"
    /\ \E outcome \in CrewOutcomes :
          frame' = [frame EXCEPT ![r].crew = outcome]
    /\ pc' = [pc EXCEPT ![r] = "update_analysis_result"]
    /\ UNCHANGED <<containers, managerVars, redisVars, next_oid, clock,
                   enqueued_ids, ret, lock, handed, pending, httpVars>>

\* process_analysis_background, from update_analysis_result to the end of
\* the finally block
BackgroundUpdateResult(r) ==
    /\ pc[r] = "update_analysis_result"
    /\ \E raises \in BOOLEAN :
          DatabaseManager_update_analysis_result(
              AnalysisId(r),
              IF frame[r].crew = "success" THEN "completed" ELSE "failed",
              frame[r].crew, raises)
    /\ \E remove_raises \in BOOLEAN :
          files' = IF remove_raises THEN files ELSE files \ {FilePath(r)}
    /\ pc' = [pc EXCEPT ![r] = "finished"]
    /\ UNCHANGED <<containers, managerVars, redisVars, next_oid, clock,
                   enqueued_ids, ret, lock, handed, pending, frame>>

NextHttp ==
    \E r \in Threads :
        \/ AnalyzeSaveFile(r)
        \/ AnalyzeCreateAnalysis(r)
        \/ BackgroundUpdateStatus(r)
        \/ BackgroundRunCrew(r)
        \/ BackgroundUpdateResult(r)

SpecHttp == Init /\ [][NextHttp]_vars

(***************************************************************************)
(* SpecBlocking: workers that call get_next_task of one QueueManager, with *)
(* the wait of brpop(list, timeout=1) in the model.  On Redis the worker   *)
(* is inside brpop (pc "brpop") until the list has an entry, the timeout   *)
(* has passed or the command raises; frame[w].waited counts the seconds it *)
(* has waited on the empty list.  enqueue_task is called by other clients  *)
(* and is one step.  The Redis server answers a brpop: the                 *)
(* steps that serve it or let its timeout pass are weakly fair; that the   *)
(* command raises is not.                                                  *)
(***************************************************************************)
\* brpop("blood_analysis_queue", timeout=1)
BRPopTimeout == 1

\* get_next_task: on Redis, to the call of brpop; in memory, the whole call
BlockingGetNextTask(w) ==
    /\ pc[w] = "idle"
    /\ IF use_redis
       THEN /\ pc' = [pc EXCEPT ![w] = "brpop"]
            /\ frame' = [frame EXCEPT ![w] = [waited |-> 0]]
            /\ UNCHANGED <<containers, managerVars, redisVars, clock, ret>>
       ELSE /\ \E now \in Nows :
                  QueueManager_get_next_task(now, "none") /\ clock' = now
            /\ UNCHANGED <<pc, frame>>
    /\ UNCHANGED <<next_oid, enqueued_ids, lock, handed, pending>>
    /\ UNCHANGED httpVars

\* a second passes while the list is empty
BlockingBRPopWaits(w) ==
    /\ pc[w] = "brpop"
    /\ redis_list = <<>>
    /\ frame[w].waited < BRPopTimeout
    /\ frame' = [frame EXCEPT ![w].waited = @ + 1]
    /\ UNCHANGED <<containers, managerVars, redisVars, next_oid, clock,
                   enqueued_ids, ret, lock, pc, handed, pending>>
    /\ UNCHANGED httpVars

\* mutant: brpop without a timeout
BlockingBRPopReturns_without_timeout(w) ==
    /\ pc[w] = "brpop"
    /\ redis_list # <<>>
    /\ \E now \in Nows, raises \in DequeueRaises \ {"brpop"} :
          QueueManager_get_next_task(now, raises) /\ clock' = now
    /\ pc' = [pc EXCEPT ![w] = "idle"]
    /\ frame' = [frame EXCEPT ![w] = <<>>]
    /\ UNCHANGED <<next_oid, enqueued_ids, lock, handed, pending>>
    /\ UNCHANGED httpVars

\* brpop returns an entry, or None at the timeout; get_next_task goes on to
\* its return
BlockingBRPopReturns(w) ==
    /\ pc[w] = "brpop"
    /\ redis_list # <<>> \/ frame[w].waited = BRPopTimeout
    /\ \E now \in Nows, raises \in DequeueRaises \ {"brpop"} :
          QueueManager_get_next_task(now, raises) /\ clock' = now
    /\ pc' = [pc EXCEPT ![w] = "idle"]
    /\ frame' = [frame EXCEPT ![w] = <<>>]
    /\ UNCHANGED <<next_oid, enqueued_ids, lock, handed, pending>>
    /\ UNCHANGED httpVars

\* brpop raises (the connection fails): get_next_task returns None
BlockingBRPopRaises(w) ==
    /\ pc[w] = "brpop"
    /\ \E now \in Nows :
          QueueManager_get_next_task(now, "brpop") /\ clock' = now
    /\ pc' = [pc EXCEPT ![w] = "idle"]
    /\ frame' = [frame EXCEPT ![w] = <<>>]
    /\ UNCHANGED <<next_oid, enqueued_ids, lock, handed, pending>>
    /\ UNCHANGED httpVars

NextBlocking ==
    \/ MgrEnqueueTask
    \/ \E w \in Threads :
          \/ BlockingGetNextTask(w)
          \/ BlockingBRPopWaits(w)
          \/ BlockingBRPopReturns(w)
          \/ BlockingBRPopRaises(w)

SpecBlocking ==
    /\ InitMgr
    /\ [][NextBlocking]_vars
    /\ \A w \in Threads :
          WF_vars(BlockingBRPopWaits(w) \/ BlockingBRPopReturns(w))

(***************************************************************************)
(* What the claims speak of.                                               *)
(***************************************************************************)
\* the QueueTask objects a dict holds
Values(d) == {d[i] : i \in DOMAIN d}

\* the QueueTask objects the InMemoryQueue holds
AllTasks == Values(tasks) \cup Values(processing_tasks)
            \cup Values(completed_tasks) \cup Values(failed_tasks)

\* which of the four dicts have id as a key
ContainersOf(id) == {c \in 1 .. 4 : id \in Keys(containers[c])}

\* the object with identity oid is held by dict d
Holds(d, oid) == \E i \in DOMAIN d : d[i].oid = oid

\* dict d in its order is strictly increasing in created_at
StrictlyIncreasing(d) ==
    \A i, j \in DOMAIN d : i < j => d[i].created_at < d[j].created_at

\* the step is a call of op (every call records itself in ret)
Called(op) == ret'.op = op

(***************************************************************************)
(* C1.  Every task id that has been enqueued is a key of exactly one of    *)
(* the four containers, also after an id is enqueued a second time.        *)
(* The code violates it: enqueue writes self.tasks only, so an id that is  *)
(* in processing, completed or failed and is enqueued again is in two.     *)
(***************************************************************************)
C1_ExactlyOneContainer ==
    \A id \in enqueued_ids : Cardinality(ContainersOf(id)) = 1

(***************************************************************************)
(* C2.  retry_count <= max_retries for every task and every max_retries,   *)
(* 0 included.  The code violates it: fail_task increments retry_count     *)
(* before it compares, so a task with max_retries = 0 ends with            *)
(* retry_count = 1.                                                        *)
(***************************************************************************)
C2_RetryCountAtMostMax ==
    \A t \in AllTasks : t.retry_count <= t.max_retries

(***************************************************************************)
(* C3.  Every successful dequeue returns a task that was queued and whose  *)
(* created_at is the least among the queued tasks; when the queued tasks,  *)
(* in the order they were enqueued, have strictly increasing created_at,   *)
(* dequeue returns the first enqueued and leaves the others in their       *)
(* order (so n dequeues in a row return n such tasks in enqueue order).    *)
(***************************************************************************)
C3_DequeueOldestFirst ==
    [][(Called("dequeue") /\ ret'.ok) =>
        LET t == ret'.val[1] IN
        /\ Holds(tasks, t.oid)
        /\ \A q \in Values(tasks) : t.created_at <= q.created_at
        /\ StrictlyIncreasing(tasks) =>
              /\ t.oid = Head(tasks).oid
              /\ tasks' = Tail(tasks)]_vars

\* two tasks were queued, the older was returned and the newer is left
C3_Witness ==
    /\ ret.op = "dequeue" /\ ret.ok
    /\ tasks # <<>>
    /\ ret.val[1].created_at < Head(tasks).created_at

(***************************************************************************)
(* C4.  Threads call enqueue, dequeue, complete_task and fail_task of one  *)
(* InMemoryQueue concurrently.  Whenever an observer can take the lock, no *)
(* task id is a key of both tasks (queued) and processing_tasks.  The code *)
(* violates it: enqueue of the id of a task that is being processed puts   *)
(* the id into tasks as well (see C1).                                     *)
(***************************************************************************)
C4_NeverQueuedAndProcessing ==
    lock = None => Keys(tasks) \cap Keys(processing_tasks) = {}

\* C4, as to the QueueTask objects: no dequeue returns an object that a
\* dequeue has returned and that no fail_task has re-queued since
C4_NoObjectHandedOutTwice ==
    [][\A t \in Threads :
          (pc[t] = "dequeue" /\ pc'[t] = "idle") =>
              frame[t].task.oid \notin handed]_vars

(***************************************************************************)
(* C5.  complete_task or fail_task with an id that is not a key of         *)
(* processing_tasks returns False and leaves the four containers, and so   *)
(* every field of every task, as they were.                                *)
(***************************************************************************)
C5_NotProcessingNoEffect ==
    [][((Called("complete_task") \/ Called("fail_task"))
          /\ ret'.id \notin Keys(processing_tasks)) =>
        (~ret'.ok /\ UNCHANGED containers)]_vars

\* fail_task was called for a terminally failed task and returned False
C5_Witness ==
    /\ ret.op = "fail_task" /\ ~ret.ok
    /\ ret.id \in Keys(failed_tasks)
    /\ ret.id \notin Keys(processing_tasks)

(***************************************************************************)
(* C6.  fail_task on a Processing task whose retry_count, once            *)
(* incremented, is still below max_retries returns True, increments        *)
(* retry_count by exactly 1, sets status Queued, clears started_at and     *)
(* completed_at and puts the task in the queued container (and takes it    *)
(* out of processing), where dequeue finds it.                             *)
(***************************************************************************)
C6_FailRequeues ==
    [][(Called("fail_task") /\ ret'.id \in Keys(processing_tasks)
          /\ DictGet(processing_tasks, ret'.id).retry_count + 1
                < DictGet(processing_tasks, ret'.id).max_retries) =>
        LET p == DictGet(processing_tasks, ret'.id) IN
        /\ ret'.ok
        /\ ret'.id \in Keys(tasks')
        /\ ret'.id \notin Keys(processing_tasks')
        /\ ~Holds(failed_tasks', p.oid)
        /\ LET q == DictGet(tasks', ret'.id) IN
           /\ q.oid = p.oid
           /\ q.retry_count = p.retry_count + 1
           /\ q.status = QUEUED
           /\ q.started_at = None
           /\ q.completed_at = None]_vars

\* a task with one failure is back in the queued container
C6_Witness ==
    /\ ret.op = "fail_task" /\ ret.ok
    /\ ret.id \in Keys(tasks)
    /\ DictGet(tasks, ret.id).retry_count = 1
    /\ DictGet(tasks, ret.id).status = QUEUED

(***************************************************************************)
(* C7.  For max_retries >= 1 a task becomes terminal Failed exactly on its *)
(* max_retries-th successful fail_task: retry_count is the number of       *)
(* successful fail_task calls on the task (0 at enqueue, one more with     *)
(* each such call, unchanged by every other step), a task is in the failed *)
(* container with status Failed exactly when its retry_count equals        *)
(* max_retries, and a task that is in the failed container is never again  *)
(* queued, processing or returned by dequeue.                              *)
(***************************************************************************)
C7_FailedExactlyAtMax ==
    \A t \in AllTasks : t.max_retries >= 1 =>
        /\ Holds(failed_tasks, t.oid) <=> t.retry_count = t.max_retries
        /\ Holds(failed_tasks, t.oid) <=> t.status = FAILED

C7_CountsFails ==
    /\ \A t \in AllTasks : \A u \in AllTasks' : u.oid = t.oid =>
          u.retry_count = t.retry_count +
              (IF Called("fail_task") /\ ret'.ok /\ ret'.id = t.id
                    /\ Holds(processing_tasks, t.oid) THEN 1 ELSE 0)
    /\ \A u \in AllTasks' : (\A t \in AllTasks : t.oid # u.oid) =>
          Called("enqueue") /\ u.retry_count = 0

C7_FailedStaysFailed ==
    \A t \in Values(failed_tasks) :
        /\ ~Holds(tasks', t.oid)
        /\ ~Holds(processing_tasks', t.oid)
        /\ ~Holds(completed_tasks', t.oid)
        /\ ~(Called("dequeue") /\ ret'.ok /\ ret'.val[1].oid = t.oid)

C7_TerminalOnMaxRetriesthFail ==
    /\ []C7_FailedExactlyAtMax
    /\ [][C7_CountsFails /\ C7_FailedStaysFailed]_vars

\* the second fail_task of a task with max_retries = 2 made it terminal
C7_Witness ==
    /\ ret.op = "fail_task" /\ ret.ok
    /\ \E t \in Values(failed_tasks) :
          t.id = ret.id /\ t.max_retries = 2 /\ t.retry_count = 2

(***************************************************************************)
(* C8.  As claimed: with max_retries = 1 the first fail_task re-queues the *)
(* task (so that a second dequeue returns it and a second fail_task        *)
(* succeeds).  The code does not: the first fail_task makes retry_count 1, *)
(* which is not below max_retries.                                         *)
(***************************************************************************)
C8_FirstFailRequeues ==
    [][(Called("fail_task") /\ ret'.ok /\ ret'.id \in Keys(processing_tasks)
          /\ DictGet(processing_tasks, ret'.id).max_retries = 1
          /\ DictGet(processing_tasks, ret'.id).retry_count = 0) =>
        Holds(tasks', DictGet(processing_tasks, ret'.id).oid)]_vars

(***************************************************************************)
(* C8, amended.  With max_retries = 1, after enqueue and dequeue the first *)
(* fail_task returns True and makes the task terminal Failed with          *)
(* retry_count = 1, not queued; from then on no dequeue returns it, it is  *)
(* never queued or processing again, no step changes it, and a fail_task   *)
(* for its id returns False unless another task with that id is            *)
(* processing.                                                             *)
(***************************************************************************)
C8_FirstFailIsTerminal ==
    [][/\ (Called("fail_task") /\ ret'.id \in Keys(processing_tasks)
            /\ DictGet(processing_tasks, ret'.id).max_retries = 1) =>
          LET p == DictGet(processing_tasks, ret'.id) IN
          /\ p.retry_count = 0
          /\ ret'.ok
          /\ ~Holds(tasks', p.oid)
          /\ ~Holds(processing_tasks', p.oid)
          /\ DictGet(failed_tasks', ret'.id) =
                [p EXCEPT !.status = FAILED, !.retry_count = 1,
                          !.completed_at = clock',
                          !.error_message = ret'.arg]
       /\ \A t \in Values(failed_tasks) : t.max_retries = 1 =>
          /\ t.retry_count = 1 /\ t.status = FAILED
          /\ ~Holds(tasks', t.oid)
          /\ ~Holds(processing_tasks', t.oid)
          /\ Holds(failed_tasks', t.oid) => t \in Values(failed_tasks')
          /\ ~(Called("dequeue") /\ ret'.ok /\ ret'.val[1].oid = t.oid)
          /\ (Called("fail_task") /\ ret'.id = t.id
                /\ t.id \notin Keys(processing_tasks)) => ~ret'.ok]_vars

\* the first fail_task of a task with max_retries = 1 made it terminal
C8_Witness ==
    /\ ret.op = "fail_task" /\ ret.ok
    /\ \E t \in Values(failed_tasks) :
          /\ t.id = ret.id /\ t.max_retries = 1 /\ t.retry_count = 1
          /\ t.status = FAILED

(***************************************************************************)
(* C9.  After complete_task(id, result) succeeded, the result passed (a    *)
(* non-empty string) can be read back from the queue's state: the task's   *)
(* record holds it.  The code violates it on the in-memory backend:        *)
(* InMemoryQueue.complete_task never uses result and QueueTask has no      *)
(* field for it.                                                           *)
(***************************************************************************)
\* the result field of the record of id in the backend in use, None without
RecordedResult(id) ==
    IF use_redis
    THEN IF "result" \in DOMAIN redis_hash[id]
         THEN Decode(redis_hash[id].result) ELSE NoneStr
    ELSE IF FindTask(id) # <<>> /\ "result" \in DOMAIN FindTask(id)[1]
         THEN FindTask(id)[1].result ELSE NoneStr

C9_CompleteRecordsResult ==
    (ret.op = "complete_task" /\ ret.ok /\ Truthy(ret.arg)) =>
        RecordedResult(ret.id) = ret.arg

(***************************************************************************)
(* C10.  The backend the QueueManager selected in __init__ is the backend  *)
(* of every later call: no step changes use_redis or redis_queue, whether  *)
(* the call succeeds or a Redis command raises; a manager on Redis never   *)
(* touches the in-memory containers, a manager on the in-memory queue      *)
(* never touches Redis, and the backend that get_queue_stats and           *)
(* health_check name is that backend.                                      *)
(***************************************************************************)
BackendName == IF use_redis THEN "redis" ELSE "in-memory"

C10_BackendFixed ==
    [][/\ use_redis' = use_redis
       /\ redis_queue' = redis_queue
       /\ use_redis => UNCHANGED containers
       /\ ~use_redis => UNCHANGED redisVars
       /\ ((Called("get_queue_stats") \/ Called("health_check")) /\ ret'.ok)
            => ret'.val[1].backend = BackendName]_vars

\* a manager on Redis whose enqueue met a failure after another call
\* had changed the Redis state
C10_Witness ==
    /\ use_redis
    /\ ret.op = "enqueue" /\ ~ret.ok
    /\ redis_hash["t1"] # <<>>

(***************************************************************************)
(* C11.  A QueueManager constructed with a redis_url whose server cannot   *)
(* be reached selects the in-memory queue (use_redis is False), and a      *)
(* manager on the in-memory queue reports "healthy" from health_check.     *)
(* The code violates the first half: __init__ never contacts the server,   *)
(* so use_redis is True whenever the client object could be built.         *)
(***************************************************************************)
C11_UnreachableSelectsLocal ==
    /\ (ret.op = "init" /\ ret.arg = "unreachable") => ~use_redis
    /\ (ret.op = "health_check" /\ ~use_redis) =>
           ret.val[1].status = "healthy"

(***************************************************************************)
(* C12.  Every descriptor health_check returns has a status, "healthy" or  *)
(* "unhealthy", and the backend name, and has an error only when the       *)
(* status is "unhealthy".  The code violates it: the descriptor of a       *)
(* failed ping has no backend.                                             *)
(***************************************************************************)
C12_DescriptorHasStatusAndBackend ==
    ret.op = "health_check" =>
        LET d == ret.val[1]
        IN  /\ "status" \in DOMAIN d
            /\ d.status \in {"healthy", "unhealthy"}
            /\ "backend" \in DOMAIN d
            /\ "error" \in DOMAIN d => d.status = "unhealthy"

(***************************************************************************)
(* C13.  Given the same calls, with no Redis command raising, the manager  *)
(* on Redis returns what the manager on the in-memory queue returns: the   *)
(* same boolean, and a task or None alike, the task with the same id,      *)
(* status and retry_count.  The code violates it: on Redis complete_task   *)
(* and fail_task return True for any id, fail_task never re-queues, and    *)
(* get_task_status cannot read the record enqueue wrote.                   *)
(***************************************************************************)
SameResult(a, b) ==
    /\ a.op = b.op
    /\ a.ok = b.ok
    /\ (a.val = <<>>) = (b.val = <<>>)
    /\ (a.val # <<>> /\ b.val # <<>>) =>
          /\ a.val[1].id = b.val[1].id
          /\ a.val[1].status = b.val[1].status
          /\ a.val[1].retry_count = b.val[1].retry_count

C13_BackendsAgree ==
    [][(pending # <<>> /\ pending' = <<>>) => SameResult(ret, ret')]_vars

\* the record task:<id> exists and its status field is the given status
RedisStatusIs(id, status) ==
    /\ redis_hash[id] # <<>>
    /\ "status" \in DOMAIN redis_hash[id]
    /\ Decode(redis_hash[id].status) = status

\* the ids of the entries of the Redis list
RedisListIds == {JsonLoads(redis_list[i]).id : i \in DOMAIN redis_list}

(***************************************************************************)
(* C14.  On Redis, a successful fail_task on a task whose record is        *)
(* Processing and whose retry_count, once incremented, is below            *)
(* max_retries writes the incremented retry_count and status Queued to the *)
(* record and puts the task back on the list; otherwise the record becomes *)
(* Failed.  The code violates it: fail_task always writes status Failed,   *)
(* never touches retry_count and never pushes to the list.                 *)
(***************************************************************************)
\* the record has its retry counters and one more failure exhausts them
RetriesExhausted(h) ==
    /\ {"retry_count", "max_retries"} \subseteq DOMAIN h
    /\ Decode(h.retry_count) + 1 >= Decode(h.max_retries)

C14_RedisFailRequeues ==
    [][(/\ use_redis
        /\ Called("fail_task") /\ ret'.ok
        /\ RedisStatusIs(ret'.id, PROCESSING)) =>
          LET id == ret'.id
              h == redis_hash[id]
          IN  IF RetriesExhausted(h)
              THEN Decode(redis_hash'[id].status) = FAILED
              ELSE /\ Decode(redis_hash'[id].status) = QUEUED
                   /\ "retry_count" \in DOMAIN h =>
                         Decode(redis_hash'[id].retry_count) =
                             Decode(h.retry_count) + 1
                   /\ \E i \in DOMAIN redis_list' :
                         JsonLoads(redis_list'[i]).id = id]_vars

(***************************************************************************)
(* C15.  On Redis, complete_task or fail_task with an id whose record is   *)
(* not Processing (no record, Queued, Completed or Failed) returns False   *)
(* and leaves every record as it was.  The code violates it: both write    *)
(* the fields of task:<id> without reading the record, and return True.    *)
(***************************************************************************)
C15_RedisNotProcessingNoEffect ==
    [][(/\ use_redis
        /\ Called("complete_task") \/ Called("fail_task")
        /\ ~RedisStatusIs(ret'.id, PROCESSING)) =>
          (~ret'.ok /\ UNCHANGED redis_hash)]_vars

(***************************************************************************)
(* C16, as claimed.  On Redis every operation in which a Redis command     *)
(* raises returns False or None.  It fails for get_queue_stats, which      *)
(* returns a dict with the error.                                          *)
(***************************************************************************)
\* the step is a call in which the Redis command named by raises raised
FailedCall(op) ==
    CASE op = "enqueue" ->
           \E id \in MgrIds, ty \in TaskTypes, data \in Payloads,
              now \in Times, raises \in EnqueueRaises \ {"none"} :
              QueueManager_enqueue_task(id, ty, data, now, raises)
      [] op = "dequeue" ->
           \E now \in Times, raises \in DequeueRaises \ {"none"} :
              /\ raises = "brpop" \/ redis_list # <<>>
              /\ QueueManager_get_next_task(now, raises)
      [] op = "complete_task" ->
           \E id \in MgrIds, result \in Results \cup {""}, now \in Times,
              raises \in CompleteRaises \ {"none"} :
              /\ raises = "hset_result" => Truthy(result)
              /\ QueueManager_complete_task(id, result, now, raises)
      [] op = "fail_task" ->
           \E id \in MgrIds, msg \in ErrorMessages, now \in Times,
              raises \in FailRaises \ {"none"} :
              QueueManager_fail_task(id, msg, now, raises)
      [] op = "get_task_status" ->
           \E id \in MgrIds, raises \in StatusRaises \ {"none"} :
              QueueManager_get_task_status(id, raises)
      [] op = "get_queue_stats" ->
           \E raises \in StatsRaises \ {"none"} :
              QueueManager_get_queue_stats(raises)

CaughtOps == {"enqueue", "dequeue", "complete_task", "fail_task",
              "get_task_status", "get_queue_stats"}

C17_PoppedIsNotQueued ==
    \A id \in Ids :
        (RedisStatusIs(id, QUEUED) /\ id \in enqueued_ids) =>
            id \in RedisListIds

(***************************************************************************)
(* C18.  The dict get_queue_stats returns always has the keys backend,     *)
(* queued, processing, completed, failed and total: on the in-memory       *)
(* queue the five counts are integers, on Redis queued is an integer and   *)
(* the other four are "N/A", also when the server cannot be reached.  The  *)
(* code violates it: the Redis dict has no total, and when llen raises the *)
(* dict holds only the error.                                              *)
(***************************************************************************)
StatsKeys == {"backend", "queued", "processing", "completed", "failed",
              "total"}

C18_StatsHasAllKeys ==
    ret.op = "get_queue_stats" =>
        LET d == ret.val[1]
        IN  /\ StatsKeys \subseteq DOMAIN d
            /\ d.queued \in Nat
            /\ IF use_redis
               THEN /\ d.backend = "redis"
                    /\ \A k \in {"processing", "completed", "failed", "total"} :
                          d[k] = "N/A"
               ELSE /\ d.backend = "in-memory"
                    /\ \A k \in {"processing", "completed", "failed", "total"} :
                          d[k] \in Nat

(***************************************************************************)
(* C19.  What InMemoryQueue.get_queue_stats returns: queued, processing,   *)
(* completed and failed are the sizes of the four dicts at the call and    *)
(* total is their sum; when no id has been enqueued twice, total is the    *)
(* number of ids enqueued so far.                                          *)
(***************************************************************************)
\* every enqueue so far brought a new id (next_oid - 1 enqueues were made)
DistinctIds == Cardinality(enqueued_ids) = next_oid - 1

C19_StatsAreContainerSizes ==
    ret.op = "get_queue_stats" =>
        LET d == ret.val[1]
        IN  /\ d.queued = Len(tasks)
            /\ d.processing = Len(processing_tasks)
            /\ d.completed = Len(completed_tasks)
            /\ d.failed = Len(failed_tasks)
            /\ d.total = d.queued + d.processing + d.completed + d.failed
            /\ DistinctIds => d.total = Cardinality(enqueued_ids)

\* stats of a queue with two ids, one of them failed for good
C19_Witness ==
    /\ ret.op = "get_queue_stats"
    /\ DistinctIds
    /\ ret.val[1].total = 2
    /\ ret.val[1].failed = 1

(***************************************************************************)
(* C20, as claimed.  The caller of enqueue_task can configure the          *)
(* max_retries of the task it creates: for every value there is a call of  *)
(* enqueue_task that creates a task with that max_retries.  It fails:      *)
(* enqueue_task has no such parameter.                                     *)
(***************************************************************************)
\* the step stores a new task whose max_retries is m
CreatesTaskWith(m) ==
    IF use_redis
    THEN /\ redis_list' # redis_list
         /\ JsonLoads(redis_list'[1]).max_retries = m
    ELSE \E i \in DOMAIN tasks' :
            tasks'[i].oid = next_oid /\ tasks'[i].max_retries = m

C21_EnqueueOverwrites ==
    ret.op = "enqueue" =>
        /\ ContainersOf(ret.id) = {1}
        /\ DictGet(tasks, ret.id).oid = next_oid - 1
        /\ DictGet(tasks, ret.id).status = QUEUED

(***************************************************************************)
(* C22.  Every task in tasks (queued) and every task in completed_tasks    *)
(* has error_message None: the message of a failure is cleared when the    *)
(* task is re-queued.  The code violates it: fail_task sets error_message  *)
(* and its retry branch resets only status, started_at and completed_at.   *)
(***************************************************************************)
C22_QueuedHasNoErrorMessage ==
    \A t \in Values(tasks) \cup Values(completed_tasks) :
        t.error_message = NoneStr

(***************************************************************************)
(* C23.  Timing fields, in every reachable state: a Queued task has        *)
(* started_at and completed_at None, a Processing task has started_at set  *)
(* and completed_at None, a Completed or Failed task has completed_at set. *)
(***************************************************************************)
C23_TimingFields ==
    \A t \in AllTasks :
        /\ t.status = QUEUED =>
               t.started_at = None /\ t.completed_at = None
        /\ t.status = PROCESSING =>
               t.started_at # None /\ t.completed_at = None
        /\ t.status \in {COMPLETED, FAILED} => t.completed_at # None

\* a re-queued task is Processing again, next to a Completed or Failed one
C23_Witness ==
    /\ \E t \in Values(processing_tasks) : t.retry_count >= 1
    /\ completed_tasks # <<>> \/ failed_tasks # <<>>

(***************************************************************************)
(* C24.  dequeue with nothing queued returns None and leaves the four      *)
(* containers unchanged; a successful dequeue moves the selected task from *)
(* tasks to processing_tasks with status Processing and started_at set,    *)
(* and leaves every other task, completed_tasks and failed_tasks           *)
(* unchanged.  The code violates the last part when the selected task has  *)
(* the id of a task in processing_tasks (see C1): that task is replaced.   *)
(***************************************************************************)
C24_DequeueFrame ==
    [][Called("dequeue") =>
        IF tasks = <<>>
        THEN ~ret'.ok /\ UNCHANGED containers
        ELSE /\ ret'.ok
             /\ \E old \in Values(tasks) :
                  /\ ret'.val[1] = [old EXCEPT !.status = PROCESSING,
                                               !.started_at = ret'.val[1].started_at]
                  /\ ret'.val[1].started_at # None
                  /\ Values(tasks') = Values(tasks) \ {old}
                  /\ Values(processing_tasks') =
                         Values(processing_tasks) \cup {ret'.val[1]}
             /\ UNCHANGED <<completed_tasks, failed_tasks>>]_vars

(***************************************************************************)
(* C25.  Threads: a status query for an id whose enqueue has returned      *)
(* never returns None, whatever dequeue, complete_task or fail_task the    *)
(* other threads are in: the scan runs under the lock, so it finds the     *)
(* task in one of the four containers, as it is before or after the        *)
(* transition.  (A step of SpecThreads that sets ret to the result of      *)
(* get_task_status and leaves pc alone is a status query.)                 *)
(***************************************************************************)
StatusQueryStep ==
    ret'.op = "get_task_status" /\ pc' = pc

C25_StatusQueryFindsTask ==
    [][(StatusQueryStep /\ ret'.id \in enqueued_ids) =>
          /\ ret'.ok
          /\ ret'.val[1].id = ret'.id
          /\ ret'.val[1] \in AllTasks
          /\ ContainersOf(ret'.id) # {}]_vars

\* the query found the task Processing just before another thread popped it
C25_Witness ==
    /\ ret.op = "get_task_status"
    /\ ret.ok
    /\ ret.val[1].status = PROCESSING
    /\ \E t \in Threads :
          /\ pc[t] \in {"complete_task", "fail_task"}
          /\ frame[t].task = ret.val[1]

(***************************************************************************)
(* C26.  A re-queued task is not sure to be the next task dequeued: a task *)
(* that was enqueued after it, with a later created_at, and that is queued *)
(* next to it can be the one the next dequeue returns.  The code violates  *)
(* it: the re-queued task keeps its created_at and dequeue takes the least *)
(* created_at.                                                             *)
(***************************************************************************)
DequeueReturns(oid) ==
    Dequeue /\ ret'.ok /\ ret'.val[1].oid = oid

ImmutableFields == {"id", "task_type", "data", "created_at", "max_retries"}

SameImmutableFields(t, u) ==
    \A f \in ImmutableFields : t[f] = u[f]

C27_ImmutableFields ==
    [][/\ \A t \in AllTasks : \A u \in AllTasks' :
            t.oid = u.oid => SameImmutableFields(t, u)
       /\ ~Called("enqueue") =>
            /\ \A id \in DOMAIN redis_hash :
                 \A f \in ImmutableFields \cap DOMAIN redis_hash[id] :
                    /\ f \in DOMAIN redis_hash'[id]
                    /\ redis_hash'[id][f] = redis_hash[id][f]
            /\ Len(redis_list') <= Len(redis_list)
            /\ \A i \in 1 .. Len(redis_list') : redis_list'[i] = redis_list[i]
       /\ (use_redis /\ Called("dequeue") /\ ret'.ok) =>
            LET entry == JsonLoads(redis_list[Len(redis_list)])
            IN  SameImmutableFields(
                    ret'.val[1],
                    [entry EXCEPT !.created_at = FromIsoFormat(@)])]_vars

\* in memory, a task that was dequeued, failed, re-queued, dequeued, completed
C27_Witness ==
    \E t \in Values(completed_tasks) : t.retry_count >= 1

(***************************************************************************)
(* C28.  A task in processing_tasks stays there until complete_task or     *)
(* fail_task is called for its id: no other call removes it.  The code     *)
(* violates it: a dequeue that selects a task with the same id (see C1)    *)
(* replaces it.                                                            *)
(***************************************************************************)
C28_ProcessingStays ==
    [][\A t \in Values(processing_tasks) :
          ~ /\ Called("complete_task") \/ Called("fail_task")
            /\ ret'.id = t.id
          => t \in Values(processing_tasks')]_vars

(***************************************************************************)
(* C29.  Redis: only enqueue adds an entry to the list; complete_task and  *)
(* fail_task leave the list unchanged and write only the fields status,    *)
(* completed_at, result and error_message of the record task:<id> of their *)
(* id; dequeue takes at most the entry at the right end of the list; no    *)
(* call removes a record or a field of a record, and after enqueue has     *)
(* returned True the record of its id exists.                              *)
(***************************************************************************)
FinishFields == {"status", "completed_at", "result", "error_message"}

C29_ListAndRecordFrame ==
    [][use_redis =>
        /\ redis_list' # redis_list =>
             \/ /\ Called("enqueue")
                /\ Len(redis_list') = Len(redis_list) + 1
                /\ SubSeq(redis_list', 2, Len(redis_list')) = redis_list
             \/ /\ Called("dequeue")
                /\ redis_list # <<>>
                /\ redis_list' = SubSeq(redis_list, 1, Len(redis_list) - 1)
        /\ (Called("complete_task") \/ Called("fail_task")) =>
             /\ redis_list' = redis_list
             /\ \A id \in DOMAIN redis_hash \ {ret'.id} :
                   redis_hash'[id] = redis_hash[id]
             /\ \A f \in DOMAIN redis_hash[ret'.id] \ FinishFields :
                   redis_hash'[ret'.id][f] = redis_hash[ret'.id][f]
             /\ DOMAIN redis_hash'[ret'.id] \ DOMAIN redis_hash[ret'.id]
                   \subseteq FinishFields
        /\ \A id \in DOMAIN redis_hash :
             DOMAIN redis_hash[id] \subseteq DOMAIN redis_hash'[id]
        /\ (Called("enqueue") /\ ret'.ok) =>
             RequiredFields \subseteq DOMAIN redis_hash'[ret'.id]]_vars

\* the record is there after enqueue, dequeue and complete_task; the list is
\* empty again
C29_Witness ==
    /\ use_redis
    /\ ret.op = "complete_task"
    /\ ret.ok
    /\ redis_list = <<>>
    /\ RequiredFields \cup {"started_at", "completed_at"}
           \subseteq DOMAIN redis_hash[ret.id]

(***************************************************************************)
(* C30.  Redis, several workers: an entry of the list is handed to at most *)
(* one dequeue, and entries leave the list in the order they were pushed.  *)
(* Every step that changes the list either puts the entry of one worker's  *)
(* enqueue at the left end or takes the entry at the right end, the oldest *)
(* one, for exactly one worker; a worker that starts a dequeue on a        *)
(* non-empty list always takes an entry out, and its call returns the task *)
(* of the entry it took.                                                   *)
(***************************************************************************)
StartsDequeue(w) ==
    pc[w] = "idle" /\ pc'[w] = "dequeue_hset_status"

TaskOfEntry(task, entry) ==
    /\ task.id = JsonLoads(entry).id
    /\ task.task_type = JsonLoads(entry).task_type
    /\ task.data = JsonLoads(entry).data
    /\ task.created_at = FromIsoFormat(JsonLoads(entry).created_at)
    /\ task.retry_count = JsonLoads(entry).retry_count
    /\ task.max_retries = JsonLoads(entry).max_retries

C30_EntriesPoppedOnceInOrder ==
    [][/\ redis_list' # redis_list =>
            \/ \E w \in Threads :
                  /\ pc[w] = "idle" /\ pc'[w] = "enqueue_hset"
                  /\ redis_list' =
                        <<JsonDumps(TaskData(frame'[w].task))>> \o redis_list
            \/ /\ redis_list # <<>>
               /\ redis_list' = SubSeq(redis_list, 1, Len(redis_list) - 1)
               /\ \E w \in Threads :
                     /\ StartsDequeue(w)
                     /\ TaskOfEntry(frame'[w].task,
                                    redis_list[Len(redis_list)])
                     /\ \A v \in Threads \ {w} :
                           pc'[v] = pc[v] /\ frame'[v] = frame[v]
       /\ \A w \in Threads :
            /\ StartsDequeue(w) => Len(redis_list') = Len(redis_list) - 1
            /\ (pc[w] = "dequeue_hset_started_at" /\ pc'[w] = "idle") =>
                  ret' = Ret("dequeue", NoneStr, NoneStr, TRUE,
                             <<frame[w].task>>)]_vars

\* two workers are in dequeue, each with its own entry, and the list is empty
C30_Witness ==
    /\ \A w \in Threads :
          pc[w] \in {"dequeue_hset_status", "dequeue_hset_started_at"}
    /\ frame[1].task.id # frame[2].task.id
    /\ redis_list = <<>>

(***************************************************************************)
(* C31.  Only the brpop of the Redis dequeue waits for a task, and for at  *)
(* most its timeout: a worker is inside a call only in brpop and only on   *)
(* Redis, it has waited at most BRPopTimeout there, a get_next_task that   *)
(* finds nothing queued (the in-memory call, or brpop at its timeout)      *)
(* returns None and changes nothing, and a worker in brpop always comes    *)
(* to the return of its get_next_task.                                     *)
(***************************************************************************)
OnlyBRPopWaits ==
    \A w \in Threads :
        /\ pc[w] \in {"idle", "brpop"}
        /\ pc[w] = "brpop" =>
              use_redis /\ frame[w].waited \in 0 .. BRPopTimeout

NothingQueued ==
    IF use_redis THEN redis_list = <<>> ELSE tasks = <<>>

EmptyDequeueReturnsNone ==
    \A w \in Threads :
        (/\ pc'[w] = "idle"
         /\ ret'.op = "dequeue"
         /\ pc[w] = "brpop" \/ ret' # ret
         /\ NothingQueued)
        => /\ ~ret'.ok
           /\ UNCHANGED <<containers, redisVars>>

C31_OnlyRedisDequeueWaits ==
    /\ []OnlyBRPopWaits
    /\ [][EmptyDequeueReturnsNone]_vars
    /\ \A w \in Threads : (pc[w] = "brpop") ~> (pc[w] = "idle")

\* a worker has waited for the whole timeout on an empty list
C31_Witness ==
    \E w \in Threads :
        /\ pc[w] = "brpop"
        /\ frame[w].waited = BRPopTimeout
        /\ redis_list = <<>>

(***************************************************************************)
(* C32.  Redis: get_task_status of an id whose record task:<id> is         *)
(* missing, lacks one of id, task_type, data, status, created_at,          *)
(* retry_count, max_retries, or has a data field that is not JSON text,    *)
(* returns None: the call returns, with no task, and leaves Redis as it    *)
(* is.  (get_task_status writes nothing, so the record the call read is    *)
(* the one of the state it returned in.)                                   *)
(***************************************************************************)
RecordMissing(id) == redis_hash[id] = <<>>

RecordIncomplete(id) ==
    /\ redis_hash[id] # <<>>
    /\ ~(RequiredFields \subseteq DOMAIN redis_hash[id])

RecordUndecodable(id) ==
    /\ RequiredFields \subseteq DOMAIN redis_hash[id]
    /\ ~IsJson(Decode(redis_hash[id].data))

C32_BadRecordGivesNone ==
    (/\ use_redis
     /\ ret.op = "get_task_status"
     /\ \/ RecordMissing(ret.id)
        \/ RecordIncomplete(ret.id)
        \/ RecordUndecodable(ret.id))
    => ~ret.ok /\ ret.val = <<>>

\* the status of a record that a dequeue or a complete_task began: it has a
\* status and lacks the fields of enqueue
C32_Witness ==
    /\ use_redis
    /\ ret.op = "get_task_status"
    /\ RecordIncomplete(ret.id)
    /\ ~ret.ok

(***************************************************************************)
(* C33.  With workers that keep calling dequeue and report every task they *)
(* are given, every enqueued task comes to Completed or terminal Failed    *)
(* and dequeue returns it at most max(1, max_retries) times.  A task that  *)
(* is never to be lost on the way must, once dequeue has returned it,      *)
(* come out of Processing into queued (for a retry), Completed or Failed.  *)
(* The code violates that: a task in processing_tasks is replaced by the   *)
(* dequeue of a task with the same id (see C1) and is in no container      *)
(* from then on.                                                           *)
(***************************************************************************)
InProcessing(oid) ==
    \E t \in Values(processing_tasks) : t.oid = oid

Reported(oid) ==
    \E t \in Values(tasks) \cup Values(completed_tasks)
                           \cup Values(failed_tasks) : t.oid = oid

C33_DequeuedTaskIsReported ==
    \A oid \in Oids : InProcessing(oid) ~> Reported(oid)

(***************************************************************************)
(* C34.  Redis: enqueue is all or nothing.  When it returns False the list *)
(* and the records are as they were before the call, so no later dequeue   *)
(* returns the task; when it returns True the list has the new entry and   *)
(* the record task:<id> has the fields of the task.  The code violates     *)
(* the first part: lpush comes before hset, and an hset that raises leaves *)
(* the entry in the list.                                                  *)
(***************************************************************************)
C34_EnqueueAllOrNothing ==
    [][(use_redis /\ Called("enqueue")) =>
          IF ret'.ok
          THEN /\ Len(redis_list') = Len(redis_list) + 1
               /\ JsonLoads(redis_list'[1]).id = ret'.id
               /\ RequiredFields \subseteq DOMAIN redis_hash'[ret'.id]
          ELSE UNCHANGED redisVars]_vars

(***************************************************************************)
(* C35.  Redis: dequeue loses no task.  A get_next_task that takes an      *)
(* entry out of the list returns its task, as Processing; one that returns *)
(* None leaves the list as it is.  The code violates it: when an hset      *)
(* after the brpop raises, the call returns None and the entry is gone.    *)
(***************************************************************************)
C35_DequeueLosesNoTask ==
    [][(use_redis /\ Called("dequeue")) =>
          IF ret'.ok
          THEN /\ redis_list # <<>>
               /\ redis_list' = SubSeq(redis_list, 1, Len(redis_list) - 1)
               /\ ret'.val[1].id = JsonLoads(redis_list[Len(redis_list)]).id
               /\ ret'.val[1].status = PROCESSING
          ELSE redis_list' = redis_list]_vars

(***************************************************************************)
(* C36.  The record of an /analyze request: the request is answered        *)
(* "queued" only when its record is stored with status queued; the job     *)
(* sets it to processing, and when the job has finished the record is      *)
(* completed or failed, never processing, and the uploaded file is gone.   *)
(* The code violates it: a DatabaseManager method that fails returns       *)
(* False, and neither the handler nor the job looks at what it returns.    *)
(***************************************************************************)
StatusOf(r) ==
    IF analyses[AnalysisId(r)] = <<>> THEN NoneStr
    ELSE analyses[AnalysisId(r)][1].status

C36_RecordLifecycle ==
    \A r \in Threads :
        /\ pc[r] = "background" =>
              frame[r].response = "queued" /\ StatusOf(r) = "queued"
        /\ pc[r] \in {"run_crew", "update_analysis_result"} =>
              StatusOf(r) = "processing"
        /\ pc[r] = "finished" =>
              /\ StatusOf(r) \in {"completed", "failed"}
              /\ FilePath(r) \notin files

====
